---- MODULE Spec2Model ----
(***************************************************************************)
(* Verification model of the HoYoLAB check-in automation:                  *)
(*   - AutomationOrchestrator (src/src/automation/orchestrator.py)         *)
(*   - RewardDetector claim engine, claim validator and error classifier   *)
(*     (src/src/detection/detector.py)                                     *)
(* Confidences are integers in hundredths (0.9 is 90), weights in tenths   *)
(* (0.4 is 4); quotients are kept as exact fractions <<num, den>>.         *)
(* Text is a sequence of one-character strings so that lower() and the     *)
(* substring tests of the code are computed, not assumed.                  *)
(***************************************************************************)
EXTENDS Integers, Sequences, FiniteSets, TLC

VARIABLES
    \* ---- AutomationOrchestrator -------------------------------------
    pc,               \* position of the caller / workflow coroutine
    entry,            \* which workflow method runs
    dry_run,          \* execute_checkin(dry_run)
    workflow_result,  \* the workflow_result dict
    browser_impl,     \* self.browser_impl: "none" | "open" | "closed"
    pending,          \* exception caught by the except block
    raised,           \* exception that left the workflow method
    cleanup_calls,    \* number of self.cleanup() invocations
    close_calls,      \* number of browser_impl.close() invocations
    clicks,           \* purposes for which page.click has been called
    log_calls,        \* invocations of execution-result logging
    history,          \* records appended to the execution history
    stages,           \* stages entered, in order
    \* ---- RewardDetector.claim_available_rewards ----------------------
    cpc,              \* position inside the claim engine
    detection_given,  \* whether the caller passed a detection_result
    rewards,          \* detection_result["claimable_rewards"]
    ri,               \* loop index i of the reward being processed
    claiming_result,  \* the claiming_result dict
    claim_result,     \* the claim_result dict of the current reward
    attempt,          \* loop variable of the click retry loop
    csel,             \* index of the confirmation selector probed next
    confirmation_result, \* the confirmation_result dict
    click_log,        \* per reward: click_element calls issued and their fate
    probe_log,        \* per confirmation selector: probes made for this reward
    \* ---- RewardDetector.validate_claim_success -----------------------
    vpc,
    validation_result,
    \* ---- RewardDetector.handle_claiming_errors -----------------------
    epc,
    error,            \* the exception handed to handle_claiming_errors
    env,              \* what the browser answers during recovery
    handler,          \* which recovery handler acted
    handling_result,
    \* ---- RewardDetector.analyze_interface / detect_reward_availability
    dpc,              \* position inside the detection engine
    dentry,           \* the detector method that was called
    strategy_index,   \* index into self.strategies of the next strategy to run
    strategy_results, \* what each strategy run so far returned or raised
    interface_analysis,  \* the analysis_result dict of analyze_interface
    reward_availability, \* the detection_result dict of detect_reward_availability
    classifier_calls, \* strategies whose analyze_reward_states was invoked
    merge_call,       \* arguments and outcome of a _merge_detection_results call
    \* ---- StateManager ------------------------------------------------
    lock_owner,       \* the task holding self._lock, 0 when it is free
    history_file,     \* the lines of the execution history file
    task_pc,          \* per task: position inside its StateManager call
    task_call,        \* per task: the method called and its argument
    task_result,      \* per task: what the call returned or raised
    \* ---- BrowserManager ----------------------------------------------
    framework,        \* self.framework
    bpc,              \* position inside BrowserManager.initialize
    backend_log,      \* backends tried by the current initialize call, with outcome
    init_calls,       \* initialize() calls made on this manager
    init_result       \* what the last initialize() call returned or raised

wfVars == <<pc, entry, dry_run, workflow_result, browser_impl, pending, raised,
            cleanup_calls, close_calls, clicks, log_calls, history, stages>>
clVars == <<cpc, detection_given, rewards, ri, claiming_result, claim_result, attempt, csel,
            confirmation_result, click_log, probe_log>>
vaVars == <<vpc, validation_result>>
ehVars == <<epc, error, env, handler, handling_result>>
dtVars == <<dpc, dentry, strategy_index, strategy_results, interface_analysis,
            reward_availability, classifier_calls, merge_call>>
stVars == <<lock_owner, history_file, task_pc, task_call, task_result>>
brVars == <<framework, bpc, backend_log, init_calls, init_result>>
vars == <<wfVars, clVars, vaVars, ehVars, dtVars, stVars, brVars>>

(***************************************************************************)
(* Text                                                                    *)
(***************************************************************************)
UpperChars == <<"A","B","C","D","E","F","G","H","I","J","K","L","M","N","O","P","Q","R","S","T","U","V","W","X","Y","Z">>
LowerChars == <<"a","b","c","d","e","f","g","h","i","j","k","l","m","n","o","p","q","r","s","t","u","v","w","x","y","z">>

\* str.lower() on one character
LowerChar(c) ==
    IF \E i \in 1..Len(UpperChars) : UpperChars[i] = c
    THEN LowerChars[CHOOSE i \in 1..Len(UpperChars) : UpperChars[i] = c]
    ELSE c

\* str.lower()
Lower(s) == [i \in 1..Len(s) |-> LowerChar(s[i])]

\* the Python test  kw in s
Contains(s, kw) ==
    \E i \in 1..(Len(s) - Len(kw) + 1) : SubSeq(s, i, i + Len(kw) - 1) = kw

KwTimeout == <<"t","i","m","e","o","u","t">>
KwNotFound == <<"n","o","t"," ","f","o","u","n","d">>
KwAuth == <<"a","u","t","h">>
KwUi == <<"u","i">>

MsgAuthenticationFailed == <<"A","u","t","h","e","n","t","i","c","a","t","i","o","n"," ","f","a","i","l","e","d">>
MsgBrowserNotInitialized == <<"B","r","o","w","s","e","r"," ","n","o","t"," ","i","n","i","t","i","a","l","i","z","e","d">>
MsgTimeoutExceeded == <<"T","i","m","e","o","u","t"," ","3","0","0","0","0","m","s"," ","e","x","c","e","e","d","e","d">>
MsgPageNotFound == <<"P","a","g","e"," ","n","o","t"," ","f","o","u","n","d">>
MsgAuthTimeout == <<"A","U","T","H"," ","t","i","m","e","o","u","t">>
MsgAuthTokenNotFound == <<"A","u","t","h"," ","t","o","k","e","n"," ","n","o","t"," ","f","o","u","n","d">>
MsgAuthRejected == <<"a","u","t","h"," ","r","e","j","e","c","t","e","d">>
MsgGuiChanged == <<"G","U","I"," ","c","h","a","n","g","e","d">>
MsgClickFailed == <<"c","l","i","c","k"," ","f","a","i","l","e","d">>

(***************************************************************************)
(* Exceptions (src/src/utils/exceptions.py)                                *)
(***************************************************************************)
NoError == [type |-> "none", msg |-> <<>>]

\* direct base class of each exception type
BaseOf(t) ==
    CASE t = "AuthenticationError" -> "AutomationError"
      [] t = "DetectionError" -> "AutomationError"
      [] t = "StateManagementError" -> "AutomationError"
      [] t = "NetworkTimeoutError" -> "AutomationError"
      [] t = "UIChangeError" -> "AutomationError"
      [] t = "ElementNotFoundError" -> "DetectionError"
      [] t = "AutomationError" -> "Exception"
      [] t = "TimeoutError" -> "Exception"
      [] t = "RuntimeError" -> "Exception"
      [] OTHER -> "Exception"

\* isinstance(error, cls); the hierarchy is at most three levels deep
IsInstance(t, cls) ==
    \/ t = cls
    \/ BaseOf(t) = cls
    \/ BaseOf(BaseOf(t)) = cls
    \/ cls = "Exception"

\* dict.update(): keys of u override, other keys of d are kept
Update(d, u) ==
    [k \in (DOMAIN d) \cup (DOMAIN u) |-> IF k \in DOMAIN u THEN u[k] ELSE d[k]]

(***************************************************************************)
(* RewardDetector.handle_claiming_errors and its recovery handlers         *)
(***************************************************************************)
FindOutcomes == {"found", "absent", "raises"}

login_selectors == 1..4

\* _test_browser_connection: current URL obtained and not None
TestBrowserConnection(e) == e.url = "ok"

\* _check_authentication_status
CheckAuthenticationStatus(e) ==
    LET login_page_detected == \E s \in login_selectors : e.login[s] = "found"
    IN  [authenticated |-> ~login_page_detected,
         login_page_detected |-> login_page_detected]

\* _try_fallback_selectors: strategies[1:] in order, first one that finds
TryFallbackSelectors(e) ==
    \E s \in DOMAIN e.fallback : e.fallback[s] = "found"

\* the strategies whose detect_elements _try_fallback_selectors calls: those of
\* strategies[1:] that no earlier strategy with found elements precedes
FallbackSelectorsTried(e) ==
    {s \in DOMAIN e.fallback :
        \A r \in DOMAIN e.fallback : r < s => e.fallback[r] # "found"}

\* variant: a dead browser withdraws the retry recommendation
HandleNetworkTimeout_NoRetryWhenDown(e) ==
    LET result == [recovery_attempted |-> TRUE, retry_recommended |-> TRUE,
                   fallback_available |-> TRUE]
    IN  IF TestBrowserConnection(e)
        THEN Update(result, [recovery_success |-> TRUE, retry_recommended |-> TRUE])
        ELSE Update(result, [recovery_success |-> FALSE, retry_recommended |-> FALSE])

HandleNetworkTimeout(e) ==
    LET result == [recovery_attempted |-> TRUE, retry_recommended |-> TRUE,
                   fallback_available |-> TRUE]
    IN  IF TestBrowserConnection(e)
        THEN Update(result, [recovery_success |-> TRUE, retry_recommended |-> TRUE])
        ELSE Update(result, [recovery_success |-> FALSE, fallback_available |-> TRUE])

HandleElementNotFound(e) ==
    LET result == [recovery_attempted |-> TRUE, retry_recommended |-> FALSE,
                   fallback_available |-> TRUE]
    IN  IF TryFallbackSelectors(e)
        THEN Update(result, [recovery_success |-> TRUE, retry_recommended |-> TRUE])
        ELSE Update(result, [recovery_success |-> FALSE, fallback_available |-> FALSE])

\* variant: the login-page probe is not consulted
HandleAuthenticationFailure_RetryAlways(e) ==
    LET result == [recovery_attempted |-> TRUE, retry_recommended |-> FALSE,
                   fallback_available |-> FALSE]
    IN  Update(result, [retry_recommended |-> TRUE, recovery_success |-> TRUE])

\* _handle_authentication_failure
HandleAuthenticationFailure(e) ==
    LET result == [recovery_attempted |-> TRUE, retry_recommended |-> FALSE,
                   fallback_available |-> FALSE]
        auth_status == CheckAuthenticationStatus(e)
    IN  IF ~auth_status.authenticated
        THEN Update(result, [retry_recommended |-> FALSE, fallback_available |-> TRUE])
        ELSE Update(result, [retry_recommended |-> TRUE, recovery_success |-> TRUE])

HandleUiChanges(e) ==
    LET result == [recovery_attempted |-> TRUE, retry_recommended |-> FALSE,
                   fallback_available |-> TRUE]
    IN  IF e.analysis_raises
        THEN Update(result, [recovery_success |-> FALSE])
        ELSE IF e.analysis_confidence > 30
        THEN Update(result, [recovery_success |-> TRUE, retry_recommended |-> TRUE])
        ELSE Update(result, [recovery_success |-> FALSE, fallback_available |-> FALSE])

HandleGenericError(e) ==
    LET result == [recovery_attempted |-> TRUE, retry_recommended |-> TRUE,
                   fallback_available |-> TRUE, recovery_success |-> FALSE]
    IN  IF TestBrowserConnection(e)
        THEN Update(result, [recovery_success |-> TRUE])
        ELSE result

\* the if/elif chain of handle_claiming_errors: which handler acts
ErrorBranch(err) ==
    LET m == Lower(err.msg)
    IN  IF IsInstance(err.type, "NetworkTimeoutError") \/ IsInstance(err.type, "TimeoutError")
           \/ Contains(m, KwTimeout)
        THEN "NetworkTimeout"
        ELSE IF IsInstance(err.type, "ElementNotFoundError") \/ Contains(m, KwNotFound)
        THEN "ElementNotFound"
        ELSE IF IsInstance(err.type, "AuthenticationError") \/ Contains(m, KwAuth)
        THEN "AuthenticationFailure"
        ELSE IF IsInstance(err.type, "UIChangeError") \/ Contains(m, KwUi)
        THEN "UIChange"
        ELSE "Generic"

HandleClaimingErrors(err, e) ==
    LET base == [error_type |-> err.type, error_message |-> err.msg,
                 recovery_attempted |-> FALSE, recovery_success |-> FALSE,
                 retry_recommended |-> FALSE, fallback_available |-> FALSE,
                 context_preserved |-> TRUE]
        b == ErrorBranch(err)
    IN  Update(base,
            CASE b = "NetworkTimeout" -> HandleNetworkTimeout(e)
              [] b = "ElementNotFound" -> HandleElementNotFound(e)
              [] b = "AuthenticationFailure" -> HandleAuthenticationFailure(e)
              [] b = "UIChange" -> HandleUiChanges(e)
              [] OTHER -> HandleGenericError(e))

(***************************************************************************)
(* Inputs of the error classifier                                          *)
(***************************************************************************)
ErrorTypes == {"Exception", "TimeoutError", "NetworkTimeoutError", "ElementNotFoundError",
               "AuthenticationError", "UIChangeError", "DetectionError", "RuntimeError"}

ErrorMessages == {MsgAuthenticationFailed, MsgBrowserNotInitialized, MsgTimeoutExceeded,
                  MsgPageNotFound, MsgAuthTimeout, MsgAuthTokenNotFound, MsgAuthRejected,
                  MsgGuiChanged, MsgClickFailed}

Errors == [type : ErrorTypes, msg : ErrorMessages]

\* strategies[1:] of the registry: attribute-based, text-based, generic-fallback
FallbackStrategies == 2..4

\* indices of self.strategies, the registry in its order
RegisteredStrategies == {1} \cup FallbackStrategies

AnalysisConfidences == {0, 30, 31, 90}

QuietEnv ==
    [url |-> "ok", login |-> [s \in login_selectors |-> "absent"],
     fallback |-> [s \in FallbackStrategies |-> "nothing"],
     first |-> "nothing", primary |-> 1,
     analysis_raises |-> FALSE, analysis_confidence |-> 0]

\* the browser answers that the handler of branch b can observe; the login
\* probe is varied for every branch. For ElementNotFound the environment also
\* holds what strategies[0] would detect were it called (first: elements or
\* none) and which strategy the last interface analysis made the primary.
EnvsFor(b) ==
    {[QuietEnv EXCEPT !.login = l, !.url = u, !.fallback = f,
                      !.first = fd, !.primary = p,
                      !.analysis_raises = ar, !.analysis_confidence = ac] :
        l \in [login_selectors -> IF b = "AuthenticationFailure"
                                   THEN FindOutcomes ELSE {"found", "absent"}],
        u \in IF b \in {"NetworkTimeout", "Generic"} THEN {"ok", "none", "raises"} ELSE {"ok"},
        f \in IF b = "ElementNotFound"
              THEN [FallbackStrategies -> {"found", "nothing", "raises"}]
              ELSE {QuietEnv.fallback},
        fd \in IF b = "ElementNotFound" THEN {"found", "nothing"} ELSE {QuietEnv.first},
        p \in IF b = "ElementNotFound" THEN RegisteredStrategies ELSE {QuietEnv.primary},
        ar \in IF b = "UIChange" THEN BOOLEAN ELSE {FALSE},
        ac \in IF b = "UIChange" THEN AnalysisConfidences ELSE {0}}

IdleEh ==
    /\ epc = "idle"
    /\ error = NoError
    /\ env = QuietEnv
    /\ handler = "none"
    /\ handling_result = [error_type |-> "none"]

\* one call of handle_claiming_errors(browser, error, context)
HandleClaimingErrorsCall ==
    /\ epc = "idle"
    /\ \E err \in Errors :
         \E e \in EnvsFor(ErrorBranch(err)) :
            /\ error' = err
            /\ env' = e
            /\ handler' = ErrorBranch(err)
            /\ handling_result' = HandleClaimingErrors(err, e)
    /\ epc' = "done"
    /\ UNCHANGED <<wfVars, clVars, vaVars, dtVars, stVars, brVars>>

(***************************************************************************)
(* RewardDetector.validate_claim_success                                   *)
(***************************************************************************)
RECURSIVE SumConfidence(_)
\* sum(elem.get("confidence", 0.5) for elem in elems), in hundredths
SumConfidence(elems) ==
    IF elems = <<>> THEN 0
    ELSE (IF "confidence" \in DOMAIN Head(elems) THEN Head(elems).confidence ELSE 50)
         + SumConfidence(Tail(elems))

\* exact fractions <<numerator, denominator>>, denominator > 0
FracAdd(a, b) == <<a[1] * b[2] + b[1] * a[2], a[2] * b[2]>>
FracEq(a, b) == a[1] * b[2] = b[1] * a[2]
FracGt(a, b) == a[1] * b[2] > b[1] * a[2]
FracLe(a, b) == a[1] * b[2] <= b[1] * a[2]

RECURSIVE FracSum(_)
FracSum(fs) == IF fs = <<>> THEN <<0, 1>> ELSE FracAdd(Head(fs), FracSum(Tail(fs)))

\* weights of the three signal groups, in tenths
UiFeedbackWeight == 4
StateChangeWeight == 4
SuccessIndicatorWeight == 2

\* average confidence of a non-empty group times its weight, in hundredths
WeightedGroup(elems, w) == <<SumConfidence(elems) * w, Len(elems) * 10>>

\* _calculate_validation_confidence: the list confidence_factors
ConfidenceFactors(vr) ==
    (IF vr.ui_feedback_detected # <<>>
     THEN <<WeightedGroup(vr.ui_feedback_detected, UiFeedbackWeight)>> ELSE <<>>)
    \o (IF vr.state_changes_detected # <<>>
        THEN <<WeightedGroup(vr.state_changes_detected, StateChangeWeight)>> ELSE <<>>)
    \o (IF vr.success_indicators # <<>>
        THEN <<WeightedGroup(vr.success_indicators, SuccessIndicatorWeight)>> ELSE <<>>)

\* _calculate_validation_confidence: sum(confidence_factors) / len(confidence_factors)
CalculateValidationConfidence(vr) ==
    LET confidence_factors == ConfidenceFactors(vr)
    IN  IF confidence_factors # <<>>
        THEN LET t == FracSum(confidence_factors)
             IN  <<t[1], t[2] * Len(confidence_factors)>>
        ELSE <<0, 1>>

ValidationThreshold == 60

NumSuccessSelectors == 8
NumSuccessPatterns == 7
NumIndicatorSelectors == 7

\* _detect_ui_success_feedback: one element per matching selector / pattern
DetectUiSuccessFeedback(nVisual, nText) ==
    [i \in 1..nVisual |-> [type |-> "visual_element", confidence |-> 90]]
    \o [i \in 1..nText |-> [type |-> "text_content", confidence |-> 70]]

\* _detect_state_changes: compares the pre-claim counts with the current ones
DetectStateChanges(decreased, increased) ==
    (IF decreased THEN <<[type |-> "claimable_rewards_decreased", confidence |-> 90]>> ELSE <<>>)
    \o (IF increased THEN <<[type |-> "claimed_rewards_increased", confidence |-> 90]>> ELSE <<>>)

\* _find_success_indicators
FindSuccessIndicators(nInd) ==
    [i \in 1..nInd |-> [type |-> "success_icon", confidence |-> 80]]

\* validate_claim_success(browser, pre_claim_state) for given browser answers
ValidateClaimSuccess(has_pre, nVisual, nText, decreased, increased, nInd, shot) ==
    LET gathered ==
            [ui_feedback_detected |-> DetectUiSuccessFeedback(nVisual, nText),
             state_changes_detected |->
                 IF has_pre THEN DetectStateChanges(decreased, increased) ELSE <<>>,
             success_indicators |-> FindSuccessIndicators(nInd)]
        conf == CalculateValidationConfidence(gathered)
        validated == FracGt(conf, <<ValidationThreshold, 1>>)
    IN  [claim_validated |-> validated,
         ui_feedback_detected |-> gathered.ui_feedback_detected,
         state_changes_detected |-> gathered.state_changes_detected,
         success_indicators |-> gathered.success_indicators,
         validation_confidence |-> conf,
         screenshot_captured |-> validated /\ shot]

IdleVa ==
    /\ vpc = "idle"
    /\ validation_result = [claim_validated |-> FALSE]

\* one call of validate_claim_success on a page showing the chosen evidence
ValidateClaimSuccessCall ==
    /\ vpc = "idle"
    /\ \E has_pre \in BOOLEAN, nVisual \in 0..NumSuccessSelectors,
          nText \in 0..NumSuccessPatterns, decreased \in BOOLEAN, increased \in BOOLEAN,
          nInd \in 0..NumIndicatorSelectors, shot \in BOOLEAN :
            /\ has_pre \/ (~decreased /\ ~increased)
            /\ validation_result' =
                   ValidateClaimSuccess(has_pre, nVisual, nText, decreased, increased, nInd, shot)
    /\ vpc' = "done"
    /\ UNCHANGED <<wfVars, clVars, ehVars, dtVars, stVars, brVars>>

(***************************************************************************)
(* RewardDetector.claim_available_rewards, _claim_single_reward and        *)
(* _handle_confirmation_dialog                                             *)
(***************************************************************************)
NoneVal == "None"

max_retries == 3

\* the list confirmation_selectors
confirmation_selectors == 1..8

MaxRewards == 2

RewardPool == {[selector |-> ".reward-item.claimable", state |-> "claimable"],
               [selector |-> NoneVal, state |-> "claimable"]}

RewardLists == UNION {[1..n -> RewardPool] : n \in 0..MaxRewards}

NoClaimError == [kind |-> "none"]

NewClaimingResult ==
    [success |-> FALSE, claims_processed |-> 0, successful_claims |-> <<>>,
     failed_claims |-> <<>>, total_attempts |-> 0, error_details |-> <<>>]

NewClaimResult ==
    [success |-> FALSE, clicked |-> FALSE, confirmed |-> FALSE,
     retry_attempts |-> 0, error |-> NoClaimError]

NewConfirmationResult == [confirmed |-> FALSE, dialog_found |-> FALSE, error |-> NoClaimError]

NewClickLog == [reward_clicks |-> 0, failed_clicks |-> 0, confirm_clicks |-> 0,
                clicks_after_success |-> 0, dialog_started |-> FALSE]

IdleCl ==
    /\ cpc = "idle"
    /\ detection_given = FALSE
    /\ rewards = <<>>
    /\ ri = 0
    /\ claiming_result = NewClaimingResult
    /\ claim_result = NewClaimResult
    /\ attempt = 0
    /\ csel = 0
    /\ confirmation_result = NewConfirmationResult
    /\ click_log = <<>>
    /\ probe_log = [s \in confirmation_selectors |-> 0]

\* variant: an empty claimable list falls through to the final success rule
ClaimAvailableRewardsCall_NoEarlyReturn ==
    /\ cpc = "idle"
    /\ \E given \in BOOLEAN, claimable_rewards \in RewardLists :
         /\ detection_given' = given
         /\ rewards' = claimable_rewards
         /\ claiming_result' =
               [NewClaimingResult EXCEPT !.total_attempts = Len(claimable_rewards)]
         /\ IF claimable_rewards = <<>>
            THEN cpc' = "finalize" /\ ri' = 0
            ELSE cpc' = "reward" /\ ri' = 1
    /\ UNCHANGED <<claim_result, attempt, csel, confirmation_result, click_log, probe_log>>
    /\ UNCHANGED <<wfVars, vaVars, ehVars, dtVars, stVars, brVars>>

\* claim_available_rewards up to the start of the loop over claimable_rewards.
\* The claimable list is read from the detection_result argument when one is
\* given, else from detect_reward_availability, which may raise; the raise is
\* wrapped in DetectionError and leaves the method.
ClaimAvailableRewardsCall ==
    /\ cpc = "idle"
    /\ \E given \in BOOLEAN :
         /\ detection_given' = given
         /\ \/ \E claimable_rewards \in RewardLists :
                  /\ rewards' = claimable_rewards
                  /\ IF claimable_rewards = <<>>
                     THEN /\ claiming_result' = [NewClaimingResult EXCEPT !.success = TRUE]
                          /\ cpc' = "done"
                          /\ ri' = 0
                     ELSE /\ claiming_result' =
                                [NewClaimingResult EXCEPT
                                    !.total_attempts = Len(claimable_rewards)]
                          /\ cpc' = "reward"
                          /\ ri' = 1
            \/ /\ ~given
               /\ rewards' = <<>>
               /\ claiming_result' =
                     [NewClaimingResult EXCEPT !.error_details = <<"detection failed">>]
               /\ cpc' = "raised"
               /\ ri' = 0
    /\ UNCHANGED <<claim_result, attempt, csel, confirmation_result, click_log, probe_log>>
    /\ UNCHANGED <<wfVars, vaVars, ehVars, dtVars, stVars, brVars>>

\* _claim_single_reward up to the first click attempt
BeginReward ==
    /\ cpc = "reward"
    /\ click_log' = Append(click_log, NewClickLog)
    /\ probe_log' = [s \in confirmation_selectors |-> 0]
    /\ confirmation_result' = NewConfirmationResult
    /\ attempt' = 0
    /\ csel' = 0
    /\ IF rewards[ri].selector = NoneVal
       THEN /\ claim_result' = [NewClaimResult EXCEPT !.error = [kind |-> "no_selector"]]
            /\ cpc' = "record"
       ELSE /\ claim_result' = NewClaimResult
            /\ cpc' = "click"
    /\ UNCHANGED <<rewards, ri, claiming_result>>
    /\ UNCHANGED <<detection_given, wfVars, vaVars, ehVars, dtVars, stVars, brVars>>

\* variant: a successful click does not leave the retry loop
ClickAttempt_NoBreak ==
    /\ cpc = "click"
    /\ \E outcome \in {"true", "false", "raises"} :
         /\ click_log' = [click_log EXCEPT
                ![ri].reward_clicks = @ + 1,
                ![ri].failed_clicks = @ + (IF outcome = "true" THEN 0 ELSE 1),
                ![ri].clicks_after_success = @ + (IF claim_result.clicked THEN 1 ELSE 0)]
         /\ CASE outcome = "true" ->
                   /\ claim_result' = [claim_result EXCEPT !.retry_attempts = attempt + 1,
                                                           !.clicked = TRUE]
                   /\ IF attempt < max_retries - 1
                      THEN /\ attempt' = attempt + 1
                           /\ cpc' = "click"
                           /\ csel' = csel
                      ELSE /\ attempt' = attempt
                           /\ cpc' = "confirm"
                           /\ csel' = 1
              [] outcome = "false" ->
                   /\ claim_result' = [claim_result EXCEPT !.retry_attempts = attempt + 1]
                   /\ IF attempt < max_retries - 1
                      THEN /\ attempt' = attempt + 1
                           /\ cpc' = "click"
                           /\ csel' = csel
                      ELSE /\ attempt' = attempt
                           /\ cpc' = IF claim_result.clicked THEN "confirm" ELSE "settle"
                           /\ csel' = IF claim_result.clicked THEN 1 ELSE csel
              [] outcome = "raises" ->
                   /\ IF attempt = max_retries - 1
                      THEN /\ claim_result' =
                                [claim_result EXCEPT
                                    !.retry_attempts = attempt + 1,
                                    !.error = [kind |-> "failed_to_click_after",
                                               attempts |-> max_retries]]
                           /\ attempt' = attempt
                           /\ cpc' = "record"
                      ELSE /\ claim_result' = [claim_result EXCEPT !.retry_attempts = attempt + 1]
                           /\ attempt' = attempt + 1
                           /\ cpc' = "click"
                   /\ csel' = csel
    /\ UNCHANGED <<rewards, ri, claiming_result, confirmation_result, probe_log>>
    /\ UNCHANGED <<detection_given, wfVars, vaVars, ehVars, dtVars, stVars, brVars>>

\* one iteration of  for attempt in range(max_retries)
ClickAttempt ==
    /\ cpc = "click"
    /\ \E outcome \in {"true", "false", "raises"} :
         /\ click_log' = [click_log EXCEPT
                ![ri].reward_clicks = @ + 1,
                ![ri].failed_clicks = @ + (IF outcome = "true" THEN 0 ELSE 1),
                ![ri].clicks_after_success = @ + (IF claim_result.clicked THEN 1 ELSE 0)]
         /\ CASE outcome = "true" ->
                   /\ claim_result' = [claim_result EXCEPT !.retry_attempts = attempt + 1,
                                                           !.clicked = TRUE]
                   /\ cpc' = "confirm"
                   /\ csel' = 1
                   /\ attempt' = attempt
              [] outcome = "false" ->
                   /\ claim_result' = [claim_result EXCEPT !.retry_attempts = attempt + 1]
                   /\ IF attempt < max_retries - 1
                      THEN /\ attempt' = attempt + 1
                           /\ cpc' = "click"
                      ELSE /\ attempt' = attempt
                           /\ cpc' = "settle"
                   /\ csel' = csel
              [] outcome = "raises" ->
                   /\ IF attempt = max_retries - 1
                      THEN /\ claim_result' =
                                [claim_result EXCEPT
                                    !.retry_attempts = attempt + 1,
                                    !.error = [kind |-> "failed_to_click_after",
                                               attempts |-> max_retries]]
                           /\ attempt' = attempt
                           /\ cpc' = "record"
                      ELSE /\ claim_result' = [claim_result EXCEPT !.retry_attempts = attempt + 1]
                           /\ attempt' = attempt + 1
                           /\ cpc' = "click"
                   /\ csel' = csel
    /\ UNCHANGED <<rewards, ri, claiming_result, confirmation_result, probe_log>>
    /\ UNCHANGED <<detection_given, wfVars, vaVars, ehVars, dtVars, stVars, brVars>>

\* variant: the selector loop goes on after a confirmation click succeeded
ConfirmProbe_NoBreak ==
    /\ cpc = "confirm"
    /\ \E outcome \in {"absent", "find_raises", "click_true", "click_false", "click_raises"} :
         LET found == outcome \in {"click_true", "click_false", "click_raises"}
             after_probe == [confirmation_result EXCEPT
                                !.dialog_found = @ \/ found,
                                !.confirmed = @ \/ (outcome = "click_true")]
             loop_ends == csel = Cardinality(confirmation_selectors)
         IN  /\ probe_log' = [probe_log EXCEPT ![csel] = @ + 1]
             /\ click_log' = [click_log EXCEPT
                    ![ri].confirm_clicks = @ + (IF found THEN 1 ELSE 0),
                    ![ri].dialog_started = TRUE]
             /\ IF loop_ends
                THEN /\ confirmation_result' =
                            IF ~after_probe.dialog_found
                            THEN [after_probe EXCEPT !.confirmed = TRUE]
                            ELSE after_probe
                     /\ cpc' = "settle"
                     /\ csel' = csel
                ELSE /\ confirmation_result' = after_probe
                     /\ cpc' = "confirm"
                     /\ csel' = csel + 1
    /\ UNCHANGED <<rewards, ri, claiming_result, claim_result, attempt>>
    /\ UNCHANGED <<detection_given, wfVars, vaVars, ehVars, dtVars, stVars, brVars>>

\* one iteration of  for selector in confirmation_selectors  in
\* _handle_confirmation_dialog, and the code after the loop when it ends
ConfirmProbe ==
    /\ cpc = "confirm"
    /\ \E outcome \in {"absent", "find_raises", "click_true", "click_false", "click_raises"} :
         LET found == outcome \in {"click_true", "click_false", "click_raises"}
             after_probe == [confirmation_result EXCEPT
                                !.dialog_found = @ \/ found,
                                !.confirmed = @ \/ (outcome = "click_true")]
             loop_ends == outcome = "click_true" \/ csel = Cardinality(confirmation_selectors)
         IN  /\ probe_log' = [probe_log EXCEPT ![csel] = @ + 1]
             /\ click_log' = [click_log EXCEPT
                    ![ri].confirm_clicks = @ + (IF found THEN 1 ELSE 0),
                    ![ri].dialog_started = TRUE]
             /\ IF loop_ends
                THEN /\ confirmation_result' =
                            IF ~after_probe.dialog_found
                            THEN [after_probe EXCEPT !.confirmed = TRUE]
                            ELSE after_probe
                     /\ cpc' = "settle"
                     /\ csel' = csel
                ELSE /\ confirmation_result' = after_probe
                     /\ cpc' = "confirm"
                     /\ csel' = csel + 1
    /\ UNCHANGED <<rewards, ri, claiming_result, claim_result, attempt>>
    /\ UNCHANGED <<detection_given, wfVars, vaVars, ehVars, dtVars, stVars, brVars>>

\* claim_result["success"] as _claim_single_reward computes it
ClaimSuccess(clicked, confirmed) == clicked /\ (confirmed \/ TRUE)

\* the end of _claim_single_reward: confirmation outcome copied, success decided
SettleReward ==
    /\ cpc = "settle"
    /\ LET with_confirmation ==
               IF claim_result.clicked
               THEN [claim_result EXCEPT
                        !.confirmed = confirmation_result.confirmed,
                        !.error = IF confirmation_result.error # NoClaimError
                                  THEN confirmation_result.error ELSE @]
               ELSE claim_result
       IN  claim_result' =
               [with_confirmation EXCEPT
                   !.success = ClaimSuccess(with_confirmation.clicked,
                                            with_confirmation.confirmed)]
    /\ cpc' = "record"
    /\ UNCHANGED <<rewards, ri, claiming_result, attempt, csel, confirmation_result,
                   click_log, probe_log>>
    /\ UNCHANGED <<detection_given, wfVars, vaVars, ehVars, dtVars, stVars, brVars>>

\* variant: claims_processed counts every reward handled, claimed or not
RecordReward_CountsFailures ==
    /\ cpc = "record"
    /\ IF claim_result.success
       THEN claiming_result' =
                [claiming_result EXCEPT
                    !.successful_claims =
                        Append(@, [reward |-> rewards[ri], attempt_number |-> ri,
                                   claim_details |-> claim_result]),
                    !.claims_processed = @ + 1]
       ELSE claiming_result' =
                [claiming_result EXCEPT
                    !.failed_claims =
                        Append(@, [reward |-> rewards[ri], attempt_number |-> ri,
                                   error |-> claim_result.error]),
                    !.claims_processed = @ + 1]
    /\ IF ri < Len(rewards)
       THEN /\ ri' = ri + 1
            /\ cpc' = "reward"
       ELSE /\ ri' = ri
            /\ cpc' = "finalize"
    /\ UNCHANGED <<rewards, claim_result, attempt, csel, confirmation_result,
                   click_log, probe_log>>
    /\ UNCHANGED <<detection_given, wfVars, vaVars, ehVars, dtVars, stVars, brVars>>

\* variant: the first failed reward ends the batch
RecordReward_AbortOnFailure ==
    /\ cpc = "record"
    /\ IF claim_result.success
       THEN claiming_result' =
                [claiming_result EXCEPT
                    !.successful_claims =
                        Append(@, [reward |-> rewards[ri], attempt_number |-> ri,
                                   claim_details |-> claim_result]),
                    !.claims_processed = @ + 1]
       ELSE claiming_result' =
                [claiming_result EXCEPT
                    !.failed_claims =
                        Append(@, [reward |-> rewards[ri], attempt_number |-> ri,
                                   error |-> claim_result.error])]
    /\ IF ri < Len(rewards) /\ claim_result.success
       THEN /\ ri' = ri + 1
            /\ cpc' = "reward"
       ELSE /\ ri' = ri
            /\ cpc' = "finalize"
    /\ UNCHANGED <<rewards, claim_result, attempt, csel, confirmation_result,
                   click_log, probe_log>>
    /\ UNCHANGED <<detection_given, wfVars, vaVars, ehVars, dtVars, stVars, brVars>>

\* claim_available_rewards: the result of one reward is filed, the loop advances
RecordReward ==
    /\ cpc = "record"
    /\ IF claim_result.success
       THEN claiming_result' =
                [claiming_result EXCEPT
                    !.successful_claims =
                        Append(@, [reward |-> rewards[ri], attempt_number |-> ri,
                                   claim_details |-> claim_result]),
                    !.claims_processed = @ + 1]
       ELSE claiming_result' =
                [claiming_result EXCEPT
                    !.failed_claims =
                        Append(@, [reward |-> rewards[ri], attempt_number |-> ri,
                                   error |-> claim_result.error])]
    /\ IF ri < Len(rewards)
       THEN /\ ri' = ri + 1
            /\ cpc' = "reward"
       ELSE /\ ri' = ri
            /\ cpc' = "finalize"
    /\ UNCHANGED <<rewards, claim_result, attempt, csel, confirmation_result,
                   click_log, probe_log>>
    /\ UNCHANGED <<detection_given, wfVars, vaVars, ehVars, dtVars, stVars, brVars>>

\* variant: a batch that ran to its end is a success
FinishBatch_AlwaysSuccess ==
    /\ cpc = "finalize"
    /\ claiming_result' = [claiming_result EXCEPT !.success = (claiming_result.claims_processed >= 0)]
    /\ cpc' = "done"
    /\ UNCHANGED <<rewards, ri, claim_result, attempt, csel, confirmation_result,
                   click_log, probe_log>>
    /\ UNCHANGED <<detection_given, wfVars, vaVars, ehVars, dtVars, stVars, brVars>>

\* claim_available_rewards after the loop: overall success status
FinishBatch ==
    /\ cpc = "finalize"
    /\ claiming_result' = [claiming_result EXCEPT !.success = (claiming_result.claims_processed > 0)]
    /\ cpc' = "done"
    /\ UNCHANGED <<rewards, ri, claim_result, attempt, csel, confirmation_result,
                   click_log, probe_log>>
    /\ UNCHANGED <<detection_given, wfVars, vaVars, ehVars, dtVars, stVars, brVars>>

(***************************************************************************)
(* RewardDetector.analyze_interface and the selector strategies            *)
(***************************************************************************)
\* an empty dict
EmptyDict == [k \in {} |-> TRUE]

\* SelectorStrategyFactory: the registry, best first
StrategyNames == <<"hoyolab_class_based", "attribute_based", "text_content",
                   "generic_fallback">>

\* the confidence each strategy's detect_elements reports when it found something
PriorConfidence == <<80, 70, 60, 30>>

\* HoYoLABClassBasedStrategy.detect_elements when no selector matched
NothingFoundConfidence == 20

\* detect_elements when its own handler caught an exception
FailedConfidence == 0

\* elements the class-based strategy can report as found
MaxFoundElements == 2

\* what detect_elements of strategy s can hand to analyze_interface: a result
\* dict (found_elements as a count) or an exception
DetectOutcomes(s) ==
    LET counts == IF s = 1 THEN 1..MaxFoundElements ELSE {1}
    IN  {[strategy |-> StrategyNames[s], raised |-> FALSE, found_elements |-> n, confidence |-> PriorConfidence[s]] :
            n \in counts}
        \cup (IF s = 1
              THEN {[strategy |-> StrategyNames[s], raised |-> FALSE, found_elements |-> 0,
                     confidence |-> NothingFoundConfidence]}
              ELSE {})
        \cup {[strategy |-> StrategyNames[s], raised |-> FALSE, found_elements |-> n, confidence |-> FailedConfidence] :
                n \in {0, 1}}
        \cup {[strategy |-> StrategyNames[s], raised |-> TRUE, found_elements |-> 0, confidence |-> FailedConfidence]}

\* the "selectors" list of a detect_elements result: the class-based strategy
\* probes its 10 selectors and tags each candidate with found and confidence
\* (which of them matched is abstracted to the first found_elements ones); the
\* attribute, text and generic strategies list their 7, 40 and 7 selectors
\* with selector, target_type and priority alone
SelectorCandidates(out) ==
    IF out.raised THEN <<>>
    ELSE IF out.strategy = StrategyNames[1]
    THEN [i \in 1..10 |->
            [selector |-> i,
             target_type |-> IF i <= 4 THEN "signin_button"
                             ELSE IF i <= 7 THEN "reward_container" ELSE "claim_button",
             priority |-> "high",
             found |-> i <= out.found_elements,
             confidence |-> IF i <= out.found_elements THEN 90 ELSE 10]]
    ELSE IF out.strategy = StrategyNames[2]
    THEN [i \in 1..7 |->
            [selector |-> i,
             target_type |-> IF i <= 4 THEN "signin_button" ELSE "reward_container",
             priority |-> "medium"]]
    ELSE IF out.strategy = StrategyNames[3]
    THEN [i \in 1..40 |->
            [selector |-> i,
             target_type |-> IF i <= 20 THEN "signin_button" ELSE "reward_item",
             priority |-> "low",
             text_pattern |-> (i + 3) \div 4]]
    ELSE [i \in 1..7 |->
            [selector |-> i, target_type |-> "generic_button", priority |-> "fallback"]]

\* the successful_strategies list: strategies that returned a non-empty
\* found_elements, in registry order
RECURSIVE SuccessfulStrategies(_)
SuccessfulStrategies(results) ==
    IF results = <<>> THEN <<>>
    ELSE LET r == results[Len(results)]
             before == SuccessfulStrategies(SubSeq(results, 1, Len(results) - 1))
         IN  IF ~r.raised /\ r.found_elements > 0
             THEN Append(before, [strategy |-> r.strategy,
                                  element_count |-> r.found_elements,
                                  confidence |-> r.confidence])
             ELSE before

\* the sort key (confidence, element_count) of a is greater than that of b
KeyGreater(a, b) ==
    \/ a.confidence > b.confidence
    \/ a.confidence = b.confidence /\ a.element_count > b.element_count

\* a variant that sorts ascending and reverses: equal keys end up reversed
SortDescending_TiesReversed(q) ==
    LET rank(i) == 1 + Cardinality({j \in DOMAIN q :
                                      \/ KeyGreater(q[j], q[i])
                                      \/ ~KeyGreater(q[i], q[j]) /\ j > i})
    IN  [k \in DOMAIN q |-> q[CHOOSE i \in DOMAIN q : rank(i) = k]]

\* list.sort(key=..., reverse=True): descending, equal keys keep their order
SortDescending(q) ==
    LET rank(i) == 1 + Cardinality({j \in DOMAIN q :
                                      \/ KeyGreater(q[j], q[i])
                                      \/ ~KeyGreater(q[i], q[j]) /\ j < i})
    IN  [k \in DOMAIN q |-> q[CHOOSE i \in DOMAIN q : rank(i) = k]]

\* selectors a reward-state classifier can match in one family
MaxFamilyFound == 1

RewardItems(family, n, c) ==
    [i \in 1..n |-> [selector |-> <<family, i>>, state |-> family, confidence |-> c]]

\* what analyze_reward_states of the named strategy can return: the class-based
\* strategy probes three selector families, the others inherit the empty default
ClassifierOutcomes(name) ==
    IF name = StrategyNames[1]
    THEN {[claimable_rewards |-> RewardItems("claimable", a, 90),
           claimed_rewards |-> RewardItems("claimed", b, 90),
           unavailable_rewards |-> RewardItems("unavailable", c, 80),
           detection_confidence |-> dc] :
             a \in 0..MaxFamilyFound, b \in 0..MaxFamilyFound, c \in 0..MaxFamilyFound,
             dc \in {80, 20}}
    ELSE {[claimable_rewards |-> <<>>, claimed_rewards |-> <<>>,
           unavailable_rewards |-> <<>>, detection_confidence |-> 50]}

\* _analyze_reward_states: the classifier's answer merged over the defaults
AnalyzeRewardStates(name, states) ==
    LET reward_states == Update([claimable_rewards |-> <<>>, claimed_rewards |-> <<>>,
                                 unavailable_rewards |-> <<>>, total_found |-> 0,
                                 analysis_method |-> name], states)
    IN  [reward_states EXCEPT
            !.total_found = Len(reward_states.claimable_rewards)
                            + Len(reward_states.claimed_rewards)
                            + Len(reward_states.unavailable_rewards)]

NewAnalysisResult ==
    [reward_states |-> EmptyDict, detection_confidence |-> 0,
     primary_strategy |-> NoneVal, fallback_strategies |-> <<>>]

\* a variant that falls back on the first registered strategy
RankStrategies_DefaultPrimary(results, states) ==
    LET successful_strategies == SortDescending(SuccessfulStrategies(results))
    IN  IF successful_strategies # <<>>
        THEN [NewAnalysisResult EXCEPT
                 !.primary_strategy = successful_strategies[1].strategy,
                 !.fallback_strategies =
                     [k \in 1..(Len(successful_strategies) - 1) |->
                         successful_strategies[k + 1].strategy],
                 !.detection_confidence = successful_strategies[1].confidence,
                 !.reward_states =
                     AnalyzeRewardStates(successful_strategies[1].strategy, states)]
        ELSE [NewAnalysisResult EXCEPT !.primary_strategy = StrategyNames[1]]

\* analyze_interface after the loop over the strategies, for the classifier
\* answer states of the primary strategy
RankStrategies(results, states) ==
    LET successful_strategies == SortDescending(SuccessfulStrategies(results))
    IN  IF successful_strategies # <<>>
        THEN [NewAnalysisResult EXCEPT
                 !.primary_strategy = successful_strategies[1].strategy,
                 !.fallback_strategies =
                     [k \in 1..(Len(successful_strategies) - 1) |->
                         successful_strategies[k + 1].strategy],
                 !.detection_confidence = successful_strategies[1].confidence,
                 !.reward_states =
                     AnalyzeRewardStates(successful_strategies[1].strategy, states)]
        ELSE [NewAnalysisResult EXCEPT !.detection_confidence = 0]

NewDetectionResult ==
    [claimable_rewards |-> <<>>, claimed_rewards |-> <<>>, unavailable_rewards |-> <<>>,
     total_rewards_found |-> 0, detection_confidence |-> 0,
     strategies_used |-> <<>>, fallback_strategies |-> <<>>]

IdleDt ==
    /\ dpc = "idle"
    /\ dentry = "none"
    /\ strategy_index = 0
    /\ strategy_results = <<>>
    /\ interface_analysis = NewAnalysisResult
    /\ reward_availability = NewDetectionResult
    /\ classifier_calls = <<>>
    /\ merge_call = EmptyDict

\* analyze_interface(browser) called directly
AnalyzeInterfaceCall ==
    /\ dpc = "idle"
    /\ dentry' = "analyze_interface"
    /\ dpc' = "strategies"
    /\ strategy_index' = 1
    /\ UNCHANGED <<strategy_results, interface_analysis, reward_availability,
                   classifier_calls>>
    /\ UNCHANGED <<merge_call, wfVars, clVars, vaVars, ehVars, stVars, brVars>>

\* a variant in which a raising strategy ends the loop
RunStrategy_StopOnRaise ==
    /\ dpc = "strategies"
    /\ \E out \in DetectOutcomes(strategy_index) :
         /\ strategy_results' = Append(strategy_results, out)
         /\ IF strategy_index < Len(StrategyNames) /\ ~out.raised
            THEN strategy_index' = strategy_index + 1 /\ dpc' = "strategies"
            ELSE strategy_index' = strategy_index /\ dpc' = "rank"
    /\ UNCHANGED <<dentry, interface_analysis, reward_availability, classifier_calls>>
    /\ UNCHANGED <<merge_call, wfVars, clVars, vaVars, ehVars, stVars, brVars>>

\* one iteration of  for strategy in self.strategies
RunStrategy ==
    /\ dpc = "strategies"
    /\ \E out \in DetectOutcomes(strategy_index) :
         strategy_results' = Append(strategy_results, out)
    /\ IF strategy_index < Len(StrategyNames)
       THEN strategy_index' = strategy_index + 1 /\ dpc' = "strategies"
       ELSE strategy_index' = strategy_index /\ dpc' = "rank"
    /\ UNCHANGED <<dentry, interface_analysis, reward_availability, classifier_calls>>
    /\ UNCHANGED <<merge_call, wfVars, clVars, vaVars, ehVars, stVars, brVars>>

\* analyze_interface after the loop: ranking, the primary's reward states, return
FinishAnalysis ==
    /\ dpc = "rank"
    /\ LET successful_strategies == SortDescending(SuccessfulStrategies(strategy_results))
       IN  IF successful_strategies # <<>>
           THEN /\ \E states \in ClassifierOutcomes(successful_strategies[1].strategy) :
                     interface_analysis' = RankStrategies(strategy_results, states)
                /\ classifier_calls' =
                     Append(classifier_calls, successful_strategies[1].strategy)
           ELSE /\ interface_analysis' = RankStrategies(strategy_results, EmptyDict)
                /\ UNCHANGED classifier_calls
    /\ dpc' = IF dentry = "analyze_interface" THEN "done" ELSE "gate"
    /\ UNCHANGED <<dentry, strategy_index, strategy_results, reward_availability>>
    /\ UNCHANGED <<merge_call, wfVars, clVars, vaVars, ehVars, stVars, brVars>>

(***************************************************************************)
(* RewardDetector.detect_reward_availability                               *)
(***************************************************************************)
\* the interface confidence below which detection returns without classifying
LowConfidenceGate == 30

\* the confidence below which the fallback strategies are consulted
FallbackThreshold == 60

\* fallback_strategies[:2]
MaxFallbackAttempts == 2

RewardFamilies == {"claimable_rewards", "claimed_rewards", "unavailable_rewards"}

Min(a, b) == IF a < b THEN a ELSE b

\* a variant that appends every new item
MergeItems_AppendAll(existing_items, new_items) == existing_items \o new_items

\* the inner loop of _merge_detection_results: items not yet present are appended
RECURSIVE MergeItems(_, _)
MergeItems(existing_items, new_items) ==
    IF new_items = <<>> THEN existing_items
    ELSE MergeItems(IF \E i \in DOMAIN existing_items : existing_items[i] = new_items[1]
                    THEN existing_items
                    ELSE Append(existing_items, new_items[1]),
                    Tail(new_items))

\* _merge_detection_results
MergeDetectionResults(primary_result, fallback_result) ==
    [k \in DOMAIN primary_result |->
        IF k \in RewardFamilies /\ k \in DOMAIN fallback_result
        THEN MergeItems(primary_result[k], fallback_result[k])
        ELSE primary_result[k]]

\* _apply_fallback_detection over the answers of the consulted fallback classifiers
RECURSIVE ApplyFallbackDetection(_, _)
ApplyFallbackDetection(state_result, answers) ==
    IF answers = <<>> THEN state_result
    ELSE ApplyFallbackDetection(MergeDetectionResults(state_result, answers[1]),
                                Tail(answers))

TotalRewards(state_result) ==
    Len(state_result.claimable_rewards) + Len(state_result.claimed_rewards)
    + Len(state_result.unavailable_rewards)

\* a variant without the final cap
CalculateConfidenceScore_Uncapped(state_result) ==
    LET base_confidence == state_result.detection_confidence
        total_rewards == TotalRewards(state_result)
    IN  IF total_rewards > 0
        THEN base_confidence + Min(30, total_rewards * 10)
        ELSE base_confidence

\* a variant that grants the whole reward bonus as soon as one reward is found
CalculateConfidenceScore_FlatBonus(state_result) ==
    LET base_confidence == state_result.detection_confidence
        total_rewards == TotalRewards(state_result)
        boosted == IF total_rewards > 0
                   THEN base_confidence + 30
                   ELSE base_confidence
    IN  Min(100, boosted)

\* _calculate_confidence_score, in hundredths
CalculateConfidenceScore(state_result) ==
    LET base_confidence == state_result.detection_confidence
        total_rewards == TotalRewards(state_result)
        boosted == IF total_rewards > 0
                   THEN base_confidence + Min(30, total_rewards * 10)
                   ELSE base_confidence
    IN  Min(100, boosted)

\* the fallback strategies _detect_reward_states_with_confidence consults
ConsultedFallbacks(analysis) ==
    IF analysis.detection_confidence < FallbackThreshold
    THEN SubSeq(analysis.fallback_strategies, 1,
                Min(MaxFallbackAttempts, Len(analysis.fallback_strategies)))
    ELSE <<>>

\* a variant that keeps the confidence the classifier reported
DetectRewardStatesWithConfidence_KeepClassifierConfidence(analysis, primary_states, answers) ==
    LET defaults == [claimable_rewards |-> <<>>, claimed_rewards |-> <<>>,
                     unavailable_rewards |-> <<>>, detection_confidence |-> 0]
        classified == IF analysis.primary_strategy # NoneVal
                      THEN Update(defaults, primary_states)
                      ELSE defaults
        merged == IF classified.detection_confidence < FallbackThreshold
                  THEN ApplyFallbackDetection(classified, answers)
                  ELSE classified
    IN  [merged EXCEPT !.detection_confidence = CalculateConfidenceScore(merged)]

\* _detect_reward_states_with_confidence for the classifier answers it received
DetectRewardStatesWithConfidence(analysis, primary_states, answers) ==
    LET defaults == [claimable_rewards |-> <<>>, claimed_rewards |-> <<>>,
                     unavailable_rewards |-> <<>>, detection_confidence |-> 0]
        classified == IF analysis.primary_strategy # NoneVal
                      THEN [Update(defaults, primary_states) EXCEPT
                               !.detection_confidence = analysis.detection_confidence]
                      ELSE defaults
        merged == IF classified.detection_confidence < FallbackThreshold
                  THEN ApplyFallbackDetection(classified, answers)
                  ELSE classified
    IN  [merged EXCEPT !.detection_confidence = CalculateConfidenceScore(merged)]

\* entries a reward list passed to _merge_detection_results can hold: two that
\* differ in confidence alone and one with another selector
MergeItemPool ==
    {[selector |-> <<"claimable", 1>>, state |-> "claimable", confidence |-> 90],
     [selector |-> <<"claimable", 1>>, state |-> "claimable", confidence |-> 80],
     [selector |-> <<"claimable", 2>>, state |-> "claimable", confidence |-> 90]}

\* length of the longest reward list passed to _merge_detection_results
MaxMergeLen == 2

\* the reward lists of up to n entries
MergeLists(n) == UNION {[1..k -> MergeItemPool] : k \in 0..n}

\* _merge_detection_results called on its own with a primary and a fallback result
MergeDetectionResultsCall ==
    /\ dpc = "idle"
    /\ \E claimable \in MergeLists(MaxMergeLen), claimed \in MergeLists(1),
          new_claimable \in MergeLists(MaxMergeLen), new_claimed \in MergeLists(1),
          partial \in BOOLEAN :
         LET primary_result == [claimable_rewards |-> claimable,
                                claimed_rewards |-> claimed,
                                unavailable_rewards |-> <<>>,
                                detection_confidence |-> PriorConfidence[4]]
             lists == [claimable_rewards |-> new_claimable,
                       claimed_rewards |-> new_claimed]
             fallback_result ==
                 IF partial THEN lists
                 ELSE Update(lists, [unavailable_rewards |-> new_claimed,
                                     detection_confidence |-> PriorConfidence[1]])
         IN  merge_call' = [primary_result |-> primary_result,
                            fallback_result |-> fallback_result,
                            merged |-> MergeDetectionResults(primary_result,
                                                             fallback_result)]
    /\ dentry' = "_merge_detection_results"
    /\ dpc' = "merged"
    /\ UNCHANGED <<strategy_index, strategy_results, interface_analysis,
                   reward_availability, classifier_calls>>
    /\ UNCHANGED <<wfVars, clVars, vaVars, ehVars, stVars, brVars>>

\* what the classifiers of the named strategies can answer, one answer each
RECURSIVE ClassifierAnswers(_)
ClassifierAnswers(names) ==
    IF names = <<>> THEN {<<>>}
    ELSE {<<first>> \o rest : first \in ClassifierOutcomes(names[1]),
                              rest \in ClassifierAnswers(Tail(names))}

\* detect_reward_availability(browser) called
DetectRewardAvailabilityCall ==
    /\ dpc = "idle"
    /\ dentry' = "detect_reward_availability"
    /\ dpc' = "strategies"
    /\ strategy_index' = 1
    /\ UNCHANGED <<strategy_results, interface_analysis, reward_availability,
                   classifier_calls>>
    /\ UNCHANGED <<merge_call, wfVars, clVars, vaVars, ehVars, stVars, brVars>>

\* the low-confidence return of detect_reward_availability
ReturnLowConfidence ==
    /\ dpc = "gate"
    /\ interface_analysis.detection_confidence < LowConfidenceGate
    /\ reward_availability' =
         [NewDetectionResult EXCEPT
             !.strategies_used = interface_analysis.primary_strategy,
             !.fallback_strategies = interface_analysis.fallback_strategies,
             !.detection_confidence = interface_analysis.detection_confidence]
    /\ dpc' = "done"
    /\ UNCHANGED <<dentry, strategy_index, strategy_results, interface_analysis,
                   classifier_calls>>
    /\ UNCHANGED <<merge_call, wfVars, clVars, vaVars, ehVars, stVars, brVars>>

\* a variant without the low-confidence gate
ClassifyStates_Ungated ==
    /\ dpc = "gate"
    /\ LET consulted == ConsultedFallbacks(interface_analysis)
       IN  \E answers \in ClassifierAnswers(consulted) :
           \E primary_states \in ClassifierOutcomes(interface_analysis.primary_strategy) :
             /\ \E reward_states \in
                    {DetectRewardStatesWithConfidence(interface_analysis,
                                                      primary_states, answers)} :
                \E updated \in
                    {Update([NewDetectionResult EXCEPT
                               !.strategies_used = interface_analysis.primary_strategy,
                               !.fallback_strategies =
                                   interface_analysis.fallback_strategies],
                            reward_states)} :
                  reward_availability' =
                    [updated EXCEPT !.total_rewards_found = TotalRewards(updated)]
             /\ classifier_calls' =
                  classifier_calls \o <<interface_analysis.primary_strategy>> \o consulted
    /\ dpc' = "done"
    /\ UNCHANGED <<dentry, strategy_index, strategy_results, interface_analysis>>
    /\ UNCHANGED <<merge_call, wfVars, clVars, vaVars, ehVars, stVars, brVars>>

\* detect_reward_availability past the gate: classification, merging, totals
ClassifyStates ==
    /\ dpc = "gate"
    /\ interface_analysis.detection_confidence >= LowConfidenceGate
    /\ LET consulted == ConsultedFallbacks(interface_analysis)
       IN  \E answers \in ClassifierAnswers(consulted) :
           \E primary_states \in ClassifierOutcomes(interface_analysis.primary_strategy) :
             /\ \E reward_states \in
                    {DetectRewardStatesWithConfidence(interface_analysis,
                                                      primary_states, answers)} :
                \E updated \in
                    {Update([NewDetectionResult EXCEPT
                               !.strategies_used = interface_analysis.primary_strategy,
                               !.fallback_strategies =
                                   interface_analysis.fallback_strategies],
                            reward_states)} :
                  reward_availability' =
                    [updated EXCEPT !.total_rewards_found = TotalRewards(updated)]
             /\ classifier_calls' =
                  classifier_calls \o <<interface_analysis.primary_strategy>> \o consulted
    /\ dpc' = "done"
    /\ UNCHANGED <<dentry, strategy_index, strategy_results, interface_analysis>>
    /\ UNCHANGED <<merge_call, wfVars, clVars, vaVars, ehVars, stVars, brVars>>

(***************************************************************************)
(* AutomationOrchestrator                                                  *)
(***************************************************************************)
PrefixCheckin == <<"C","h","e","c","k","-","i","n"," ","w","o","r","k","f","l","o","w"," ","f","a","i","l","e","d"," ","a","t"," ">>
PrefixWorkflow == <<"W","o","r","k","f","l","o","w"," ","f","a","i","l","e","d"," ","a","t"," ">>
PrefixLogFailed == <<"F","a","i","l","e","d"," ","t","o"," ","l","o","g"," ","e","x","e","c","u","t","i","o","n"," ","r","e","s","u","l","t",":"," ">>
PrefixInitFailed == <<"O","r","c","h","e","s","t","r","a","t","o","r"," ","i","n","i","t","i","a","l","i","z","a","t","i","o","n"," ","f","a","i","l","e","d",":"," ">>
MsgNoSpace == <<"N","o"," ","s","p","a","c","e"," ","l","e","f","t"," ","o","n"," ","d","e","v","i","c","e">>
MsgLaunchFailed == <<"F","a","i","l","e","d"," ","t","o"," ","i","n","i","t","i","a","l","i","z","e"," ","p","l","a","y","w","r","i","g","h","t">>
PrefixStateInitFailed == <<"F","a","i","l","e","d"," ","t","o"," ","i","n","i","t","i","a","l","i","z","e"," ","s","t","a","t","e"," ","m","a","n","a","g","e","r",":"," ">>
ColonSpace == <<":"," ">>

\* how an f-string renders workflow_result['step_completed']
StepText(step) ==
    CASE step = "navigation" -> <<"n","a","v","i","g","a","t","i","o","n">>
      [] step = "modal_handling" -> <<"m","o","d","a","l","_","h","a","n","d","l","i","n","g">>
      [] step = "authentication" -> <<"a","u","t","h","e","n","t","i","c","a","t","i","o","n">>
      [] step = "reward_detection" -> <<"r","e","w","a","r","d","_","d","e","t","e","c","t","i","o","n">>
      [] step = "reward_claiming" -> <<"r","e","w","a","r","d","_","c","l","a","i","m","i","n","g">>
      [] step = "claim_validation" -> <<"c","l","a","i","m","_","v","a","l","i","d","a","t","i","o","n">>
      [] step = "dry_run_complete" -> <<"d","r","y","_","r","u","n","_","c","o","m","p","l","e","t","e">>
      [] step = "no_rewards_to_claim" -> <<"n","o","_","r","e","w","a","r","d","s","_","t","o","_","c","l","a","i","m">>
      [] step = "interface_analysis" -> <<"i","n","t","e","r","f","a","c","e","_","a","n","a","l","y","s","i","s">>
      [] OTHER -> <<"N","o","n","e">>

\* what browser.navigate can raise
NavigationErrors ==
    {[type |-> "RuntimeError", msg |-> MsgBrowserNotInitialized],
     [type |-> "PlaywrightTimeoutError", msg |-> MsgTimeoutExceeded],
     [type |-> "PlaywrightError", msg |-> MsgPageNotFound]}

modal_close_selectors == 1..7
avatar_selectors == 1..3
login_button_selectors == 1..5
red_point_selectors == 1..3
clickable_selectors == 1..5

\* index of the first selector of the list 1..n for which f gives value v, else 0
FirstWith(f, n, v) ==
    IF \E i \in 1..n : f[i] = v
    THEN CHOOSE i \in 1..n : f[i] = v /\ \A j \in 1..(i - 1) : f[j] # v
    ELSE 0

NewCheckinResult(dr) ==
    [success |-> FALSE, workflow_completed |-> FALSE, step_completed |-> NoneVal,
     authentication_success |-> FALSE, interface_analysis |-> EmptyDict,
     reward_detection |-> EmptyDict, claiming_results |-> EmptyDict,
     validation_results |-> EmptyDict, screenshots |-> <<>>, errors |-> <<>>,
     dry_run |-> dr, cleanup_completed |-> FALSE]

NewWorkflowResult ==
    [success |-> FALSE, step_completed |-> NoneVal, authentication_success |-> FALSE,
     interface_analysis |-> EmptyDict, screenshots |-> <<>>, errors |-> <<>>]

IdleWf ==
    /\ pc = "constructed"
    /\ entry = "none"
    /\ dry_run = FALSE
    /\ workflow_result = EmptyDict
    /\ browser_impl = "none"
    /\ pending = NoError
    /\ raised = NoError
    /\ cleanup_calls = 0
    /\ close_calls = 0
    /\ clicks = {}
    /\ log_calls = 0
    /\ history = <<>>
    /\ stages = <<>>

\* AutomationOrchestrator.cleanup: closes the browser if there is one
CleanupEffect ==
    /\ cleanup_calls' = cleanup_calls + 1
    /\ IF browser_impl # "none"
       THEN /\ close_calls' = close_calls + 1
            /\ browser_impl' = "closed"
       ELSE UNCHANGED <<close_calls, browser_impl>>

\* AutomationOrchestrator.initialize
Initialize ==
    /\ pc = "constructed"
    /\ \E outcome \in {"ok", "browser_fails", "state_manager_fails"} :
         CASE outcome = "ok" ->
                /\ browser_impl' = "open"
                /\ pc' = "ready"
                /\ UNCHANGED <<raised, cleanup_calls, close_calls>>
           [] outcome = "browser_fails" ->
                /\ cleanup_calls' = cleanup_calls + 1
                /\ raised' = [type |-> "AutomationError",
                              msg |-> PrefixInitFailed \o MsgLaunchFailed]
                /\ pc' = "init_failed"
                /\ UNCHANGED <<browser_impl, close_calls>>
           [] outcome = "state_manager_fails" ->
                /\ cleanup_calls' = cleanup_calls + 1
                /\ close_calls' = close_calls + 1
                /\ browser_impl' = "closed"
                /\ raised' = [type |-> "AutomationError",
                              msg |-> PrefixInitFailed \o PrefixStateInitFailed \o MsgNoSpace]
                /\ pc' = "init_failed"
    /\ UNCHANGED <<entry, dry_run, workflow_result, pending, clicks, log_calls, history, stages>>
    /\ UNCHANGED <<clVars, vaVars, ehVars, dtVars, stVars, brVars>>

\* execute_checkin(dry_run): the workflow_result dict is created
CallExecuteCheckin ==
    /\ pc = "ready"
    /\ \E dr \in BOOLEAN :
         /\ dry_run' = dr
         /\ workflow_result' = NewCheckinResult(dr)
    /\ entry' = "execute_checkin"
    /\ pc' = "navigation"
    /\ UNCHANGED <<browser_impl, pending, raised, cleanup_calls, close_calls, clicks,
                   log_calls, history, stages>>
    /\ UNCHANGED <<clVars, vaVars, ehVars, dtVars, stVars, brVars>>

\* execute_workflow(): the workflow_result dict is created
CallExecuteWorkflow ==
    /\ pc = "ready"
    /\ dry_run' = FALSE
    /\ workflow_result' = NewWorkflowResult
    /\ entry' = "execute_workflow"
    /\ pc' = "navigation"
    /\ UNCHANGED <<browser_impl, pending, raised, cleanup_calls, close_calls, clicks,
                   log_calls, history, stages>>
    /\ UNCHANGED <<clVars, vaVars, ehVars, dtVars, stVars, brVars>>

\* the except block is entered with the exception e
Caught(e) ==
    /\ pending' = e
    /\ pc' = "except"

\* variant: the step marker is written before the stage is attempted
NavigateToHoyolab_MarkerFirst ==
    /\ pc = "navigation"
    /\ stages' = Append(stages, "navigation")
    /\ workflow_result' = [workflow_result EXCEPT !.step_completed = "navigation"]
    /\ \/ /\ pc' = IF entry = "execute_checkin" THEN "modal_handling" ELSE "authentication"
          /\ UNCHANGED pending
       \/ \E e \in NavigationErrors : Caught(e)
    /\ UNCHANGED <<entry, dry_run, browser_impl, raised, cleanup_calls, close_calls, clicks,
                   log_calls, history>>
    /\ UNCHANGED <<clVars, vaVars, ehVars, dtVars, stVars, brVars>>

\* Step 1: _navigate_to_hoyolab, then the step marker
NavigateToHoyolab ==
    /\ pc = "navigation"
    /\ stages' = Append(stages, "navigation")
    /\ \/ /\ workflow_result' = [workflow_result EXCEPT !.step_completed = "navigation"]
          /\ pc' = IF entry = "execute_checkin" THEN "modal_handling" ELSE "authentication"
          /\ UNCHANGED pending
       \/ /\ \E e \in NavigationErrors : Caught(e)
          /\ UNCHANGED workflow_result
    /\ UNCHANGED <<entry, dry_run, browser_impl, raised, cleanup_calls, close_calls, clicks,
                   log_calls, history>>
    /\ UNCHANGED <<clVars, vaVars, ehVars, dtVars, stVars, brVars>>

\* Step 2: _close_blocking_modals clicks every close button it finds
CloseBlockingModals ==
    /\ pc = "modal_handling"
    /\ stages' = Append(stages, "modal_handling")
    /\ \E probe \in [modal_close_selectors -> FindOutcomes] :
         clicks' = IF \E s \in modal_close_selectors : probe[s] = "found"
                   THEN clicks \cup {"modal_close"} ELSE clicks
    /\ workflow_result' = [workflow_result EXCEPT !.step_completed = "modal_handling"]
    /\ pc' = "authentication"
    /\ UNCHANGED <<entry, dry_run, browser_impl, pending, raised, cleanup_calls, close_calls,
                   log_calls, history>>
    /\ UNCHANGED <<clVars, vaVars, ehVars, dtVars, stVars, brVars>>

\* _login_with_credentials: <<page.click calls issued, returned value>>
LoginWithCredentials(avatar, username_filled, password_filled, button) ==
    LET a == FirstWith(avatar, Cardinality(avatar_selectors), "clicked")
        avatar_tried == IF a = 0 THEN avatar_selectors ELSE 1..a
        avatar_clicks == Cardinality({i \in avatar_tried : avatar[i] # "hidden"})
        b == FirstWith(button, Cardinality(login_button_selectors), "clicked")
        button_clicks == IF b = 0 THEN Cardinality(login_button_selectors) ELSE b
    IN  IF a = 0 THEN <<avatar_clicks, FALSE>>
        ELSE IF ~username_filled \/ ~password_filled THEN <<avatar_clicks, FALSE>>
        ELSE <<avatar_clicks + button_clicks, b # 0>>

\* _authenticate: <<page.click calls issued, returned value>>
AuthenticateOutcomes ==
    {<<0, cookies_ok>> : cookies_ok \in BOOLEAN}
    \cup {LoginWithCredentials(avatar, u, p, button) :
            avatar \in [avatar_selectors -> {"hidden", "click_raises", "clicked"}],
            u \in BOOLEAN, p \in BOOLEAN,
            button \in [login_button_selectors -> {"click_raises", "clicked"}]}

\* variant: a false authentication result does not stop the workflow
Authenticate_ContinueOnFailure ==
    /\ pc = "authentication"
    /\ stages' = Append(stages, "authentication")
    /\ \E out \in AuthenticateOutcomes :
         /\ clicks' = IF out[1] > 0 THEN clicks \cup {"login"} ELSE clicks
         /\ workflow_result' = [workflow_result EXCEPT
                                    !.authentication_success = out[2],
                                    !.step_completed = "authentication"]
    /\ pc' = IF entry = "execute_checkin" THEN "reward_detection" ELSE "interface_analysis"
    /\ UNCHANGED <<entry, dry_run, browser_impl, pending, raised, cleanup_calls, close_calls,
                   log_calls, history>>
    /\ UNCHANGED <<clVars, vaVars, ehVars, dtVars, stVars, brVars>>

\* variant: the modals are dismissed once more after a successful login
Authenticate_ModalsAfterLogin ==
    /\ pc = "authentication"
    /\ stages' = Append(stages, "authentication")
    /\ \E out \in AuthenticateOutcomes :
         LET auth_result == out[2]
         IN  /\ clicks' = IF out[1] > 0 THEN clicks \cup {"login"} ELSE clicks
             /\ workflow_result' = [workflow_result EXCEPT
                                        !.authentication_success = auth_result,
                                        !.step_completed = "authentication"]
             /\ IF ~auth_result
                THEN Caught([type |-> "AuthenticationError", msg |-> MsgAuthenticationFailed])
                ELSE /\ pc' = IF "modal_handling" \in {stages[i] : i \in 2..Len(stages)}
                                 /\ Len(stages) < 4
                              THEN "modal_handling"
                              ELSE IF entry = "execute_checkin"
                              THEN "reward_detection" ELSE "interface_analysis"
                     /\ UNCHANGED pending
    /\ UNCHANGED <<entry, dry_run, browser_impl, raised, cleanup_calls, close_calls,
                   log_calls, history>>
    /\ UNCHANGED <<clVars, vaVars, ehVars, dtVars, stVars, brVars>>

\* Step 3: _authenticate, the result and the step marker, then the check
Authenticate ==
    /\ pc = "authentication"
    /\ stages' = Append(stages, "authentication")
    /\ \E out \in AuthenticateOutcomes :
         LET auth_result == out[2]
         IN  /\ clicks' = IF out[1] > 0 THEN clicks \cup {"login"} ELSE clicks
             /\ workflow_result' = [workflow_result EXCEPT
                                        !.authentication_success = auth_result,
                                        !.step_completed = "authentication"]
             /\ IF ~auth_result
                THEN Caught([type |-> "AuthenticationError", msg |-> MsgAuthenticationFailed])
                ELSE /\ pc' = IF entry = "execute_checkin"
                              THEN "reward_detection" ELSE "interface_analysis"
                     /\ UNCHANGED pending
    /\ UNCHANGED <<entry, dry_run, browser_impl, raised, cleanup_calls, close_calls,
                   log_calls, history>>
    /\ UNCHANGED <<clVars, vaVars, ehVars, dtVars, stVars, brVars>>

\* _detect_rewards_with_red_point for given answers of find_element
DetectRewardsWithRedPoint(red, parent) ==
    LET detection_result ==
            [claimable_rewards |-> <<>>, claimed_rewards |-> <<>>,
             unavailable_rewards |-> <<>>, total_rewards_found |-> 0,
             detection_confidence |-> 0, detection_method |-> "red_point_indicator"]
        used_selector == FirstWith(red, Cardinality(red_point_selectors), "found")
        claimable_element == FirstWith(parent, Cardinality(clickable_selectors), "found")
    IN  IF used_selector = 0
        THEN [detection_result EXCEPT !.detection_confidence = 30]
        ELSE IF claimable_element # 0
        THEN [detection_result EXCEPT
                 !.claimable_rewards =
                     <<[selector |-> <<claimable_element, used_selector>>,
                        state |-> "claimable", red_point_detected |-> TRUE]>>,
                 !.total_rewards_found = 1,
                 !.detection_confidence = 95]
        ELSE [detection_result EXCEPT !.detection_confidence = 40]

\* Step 4: reward detection and the step marker
DetectRewards ==
    /\ pc = "reward_detection"
    /\ stages' = Append(stages, "reward_detection")
    /\ \E red \in [red_point_selectors -> FindOutcomes],
          parent \in [clickable_selectors -> FindOutcomes] :
         workflow_result' = [workflow_result EXCEPT
                                !.reward_detection = DetectRewardsWithRedPoint(red, parent),
                                !.step_completed = "reward_detection"]
    /\ pc' = "branch"
    /\ UNCHANGED <<entry, dry_run, browser_impl, pending, raised, cleanup_calls, close_calls,
                   clicks, log_calls, history>>
    /\ UNCHANGED <<clVars, vaVars, ehVars, dtVars, stVars, brVars>>

\* _claim_reward_with_red_point: one page.click on the first claimable reward
ClaimRewardWithRedPoint(detection_result, click_ok) ==
    LET claiming == [success |-> FALSE, claims_processed |-> 0, successful_claims |-> <<>>,
                     failed_claims |-> <<>>, error_details |-> <<>>]
        selector == detection_result.claimable_rewards[1].selector
    IN  IF click_ok
        THEN [claiming EXCEPT !.success = TRUE, !.claims_processed = 1,
                              !.successful_claims = <<[selector |-> selector]>>]
        ELSE [claiming EXCEPT !.failed_claims = <<[selector |-> selector,
                                                   error |-> MsgClickFailed]>>,
                              !.error_details = <<MsgClickFailed>>]

\* variant: the claiming branch does not look at dry_run
ClaimReward_IgnoreDryRun ==
    /\ pc = "branch"
    /\ workflow_result.reward_detection.claimable_rewards # <<>>
    /\ stages' = Append(stages, "reward_claiming")
    /\ clicks' = clicks \cup {"reward"}
    /\ \E click_ok \in BOOLEAN :
         /\ workflow_result' =
               [workflow_result EXCEPT
                   !.claiming_results =
                       ClaimRewardWithRedPoint(workflow_result.reward_detection, click_ok),
                   !.step_completed = "reward_claiming"]
         /\ pc' = IF click_ok THEN "claim_validation" ELSE "log"
    /\ UNCHANGED <<entry, dry_run, browser_impl, pending, raised, cleanup_calls, close_calls,
                   log_calls, history>>
    /\ UNCHANGED <<clVars, vaVars, ehVars, dtVars, stVars, brVars>>

\* variant: validation follows the claiming stage whatever it reported
ClaimReward_AlwaysValidate ==
    /\ pc = "branch"
    /\ ~dry_run /\ workflow_result.reward_detection.claimable_rewards # <<>>
    /\ stages' = Append(stages, "reward_claiming")
    /\ clicks' = clicks \cup {"reward"}
    /\ \E click_ok \in BOOLEAN :
         workflow_result' =
             [workflow_result EXCEPT
                 !.claiming_results =
                     ClaimRewardWithRedPoint(workflow_result.reward_detection, click_ok),
                 !.step_completed = "reward_claiming"]
    /\ pc' = "claim_validation"
    /\ UNCHANGED <<entry, dry_run, browser_impl, pending, raised, cleanup_calls, close_calls,
                   log_calls, history>>
    /\ UNCHANGED <<clVars, vaVars, ehVars, dtVars, stVars, brVars>>

\* Step 5, first branch: not dry_run and claimable rewards detected
ClaimReward ==
    /\ pc = "branch"
    /\ ~dry_run /\ workflow_result.reward_detection.claimable_rewards # <<>>
    /\ stages' = Append(stages, "reward_claiming")
    /\ clicks' = clicks \cup {"reward"}
    /\ \E click_ok \in BOOLEAN :
         /\ workflow_result' =
               [workflow_result EXCEPT
                   !.claiming_results =
                       ClaimRewardWithRedPoint(workflow_result.reward_detection, click_ok),
                   !.step_completed = "reward_claiming"]
         /\ pc' = IF click_ok THEN "claim_validation" ELSE "log"
    /\ UNCHANGED <<entry, dry_run, browser_impl, pending, raised, cleanup_calls, close_calls,
                   log_calls, history>>
    /\ UNCHANGED <<clVars, vaVars, ehVars, dtVars, stVars, brVars>>

\* Step 5, second branch: elif dry_run
DryRunComplete ==
    /\ pc = "branch"
    /\ ~(~dry_run /\ workflow_result.reward_detection.claimable_rewards # <<>>)
    /\ dry_run
    /\ workflow_result' = [workflow_result EXCEPT
                              !.claiming_results = [dry_run |-> TRUE, success |-> TRUE],
                              !.validation_results = [dry_run |-> TRUE],
                              !.step_completed = "dry_run_complete"]
    /\ pc' = "log"
    /\ UNCHANGED <<entry, dry_run, browser_impl, pending, raised, cleanup_calls, close_calls,
                   clicks, log_calls, history, stages>>
    /\ UNCHANGED <<clVars, vaVars, ehVars, dtVars, stVars, brVars>>

\* Step 5, third branch: else
NoRewardsToClaim ==
    /\ pc = "branch"
    /\ ~(~dry_run /\ workflow_result.reward_detection.claimable_rewards # <<>>)
    /\ ~dry_run
    /\ workflow_result' = [workflow_result EXCEPT
                              !.claiming_results = [no_rewards |-> TRUE, success |-> TRUE],
                              !.step_completed = "no_rewards_to_claim"]
    /\ pc' = "log"
    /\ UNCHANGED <<entry, dry_run, browser_impl, pending, raised, cleanup_calls, close_calls,
                   clicks, log_calls, history, stages>>
    /\ UNCHANGED <<clVars, vaVars, ehVars, dtVars, stVars, brVars>>

\* evidence of each kind shown by the page when the workflow validates a claim
MaxWorkflowEvidence == 1

\* Step 6: reward_detector.validate_claim_success(browser_impl, pre_claim_state)
ValidateClaim ==
    /\ pc = "claim_validation"
    /\ stages' = Append(stages, "claim_validation")
    /\ \E nVisual \in 0..MaxWorkflowEvidence, nText \in 0..MaxWorkflowEvidence,
          decreased \in BOOLEAN, increased \in BOOLEAN,
          nInd \in 0..MaxWorkflowEvidence, shot \in BOOLEAN :
         LET v == ValidateClaimSuccess(TRUE, nVisual, nText, decreased, increased, nInd, shot)
         IN  /\ validation_result' = v
             /\ workflow_result' = [workflow_result EXCEPT
                                       !.validation_results = v,
                                       !.step_completed = "claim_validation"]
    /\ vpc' = "done"
    /\ pc' = "log"
    /\ UNCHANGED <<entry, dry_run, browser_impl, pending, raised, cleanup_calls, close_calls,
                   clicks, log_calls, history>>
    /\ UNCHANGED <<clVars, ehVars, dtVars, stVars, brVars>>

\* the execution_record that _log_execution_result builds from workflow_result
ExecutionRecord(wr) ==
    [success |-> wr.success,
     workflow_completed |-> wr.workflow_completed,
     step_completed |-> wr.step_completed,
     claiming_success |-> IF "success" \in DOMAIN wr.claiming_results
                          THEN wr.claiming_results.success ELSE FALSE,
     error_count |-> Len(wr.errors),
     screenshots_captured |-> Len(wr.screenshots),
     cleanup_completed |-> wr.cleanup_completed]

\* _log_execution_result: one append is attempted, a failing sink is swallowed
LogExecutionResult(wr) ==
    /\ log_calls' = log_calls + 1
    /\ \E sink_ok \in BOOLEAN :
         history' = IF sink_ok THEN Append(history, ExecutionRecord(wr)) ELSE history

\* Step 7: the result is logged, then the workflow is marked completed
LogAndComplete ==
    /\ pc = "log"
    /\ stages' = Append(stages, "logging")
    /\ LogExecutionResult(workflow_result)
    /\ workflow_result' = [workflow_result EXCEPT !.success = TRUE,
                                                  !.workflow_completed = TRUE]
    /\ pc' = "finally"
    /\ UNCHANGED <<entry, dry_run, browser_impl, pending, raised, cleanup_calls, close_calls,
                   clicks>>
    /\ UNCHANGED <<clVars, vaVars, ehVars, dtVars, stVars, brVars>>

\* _handle_workflow_error: the detector's classification merged over the defaults
HandleWorkflowError(err, e) ==
    Update([error_type |-> err.type, error_message |-> err.msg,
            recovery_attempted |-> FALSE, retry_recommended |-> FALSE,
            context_preserved |-> TRUE],
           HandleClaimingErrors(err, e))

\* variant: a failing history sink escapes the except block
CheckinExcept_UnguardedLog ==
    /\ pc = "except"
    /\ entry = "execute_checkin"
    /\ \E e \in EnvsFor(ErrorBranch(pending)), shot_ok \in BOOLEAN, sink_ok \in BOOLEAN :
         LET handled ==
                 Update(workflow_result,
                        [error_handling |-> HandleWorkflowError(pending, e),
                         errors |-> Append(workflow_result.errors, pending.msg),
                         screenshots |->
                             IF shot_ok
                             THEN Append(workflow_result.screenshots, "checkin_workflow_error")
                             ELSE workflow_result.screenshots])
         IN  /\ env' = e
             /\ error' = pending
             /\ handler' = ErrorBranch(pending)
             /\ handling_result' = HandleClaimingErrors(pending, e)
             /\ workflow_result' = handled
             /\ log_calls' = log_calls + 1
             /\ history' = IF sink_ok THEN Append(history, ExecutionRecord(handled))
                           ELSE history
             /\ raised' = IF sink_ok
                          THEN [type |-> "AutomationError",
                                msg |-> PrefixCheckin
                                        \o StepText(workflow_result.step_completed)
                                        \o ColonSpace \o pending.msg]
                          ELSE [type |-> "StateManagementError",
                                msg |-> PrefixLogFailed \o MsgNoSpace]
    /\ epc' = "done"
    /\ pc' = "finally"
    /\ UNCHANGED <<entry, dry_run, browser_impl, pending, cleanup_calls, close_calls,
                   clicks, stages>>
    /\ UNCHANGED <<clVars, vaVars, dtVars, stVars, brVars>>

\* the except block of execute_checkin
CheckinExcept ==
    /\ pc = "except"
    /\ entry = "execute_checkin"
    /\ \E e \in EnvsFor(ErrorBranch(pending)), shot_ok \in BOOLEAN :
         LET handled ==
                 Update(workflow_result,
                        [error_handling |-> HandleWorkflowError(pending, e),
                         errors |-> Append(workflow_result.errors, pending.msg),
                         screenshots |->
                             IF shot_ok
                             THEN Append(workflow_result.screenshots, "checkin_workflow_error")
                             ELSE workflow_result.screenshots])
         IN  /\ env' = e
             /\ error' = pending
             /\ handler' = ErrorBranch(pending)
             /\ handling_result' = HandleClaimingErrors(pending, e)
             /\ workflow_result' = handled
             /\ LogExecutionResult(handled)
    /\ epc' = "done"
    /\ raised' = [type |-> "AutomationError",
                  msg |-> PrefixCheckin \o StepText(workflow_result.step_completed)
                          \o ColonSpace \o pending.msg]
    /\ pc' = "finally"
    /\ UNCHANGED <<entry, dry_run, browser_impl, pending, cleanup_calls, close_calls,
                   clicks, stages>>
    /\ UNCHANGED <<clVars, vaVars, dtVars, stVars, brVars>>

\* variant: cleanup is reached on the success path only
Finally_SkipCleanupOnError ==
    /\ pc = "finally"
    /\ IF raised = NoError
       THEN /\ CleanupEffect
            /\ workflow_result' = [workflow_result EXCEPT !.cleanup_completed = TRUE]
       ELSE UNCHANGED <<cleanup_calls, close_calls, browser_impl, workflow_result>>
    /\ pc' = IF raised = NoError THEN "returned" ELSE "raised"
    /\ UNCHANGED <<entry, dry_run, pending, raised, clicks, log_calls, history, stages>>
    /\ UNCHANGED <<clVars, vaVars, ehVars, dtVars, stVars, brVars>>

\* the finally block of execute_checkin
Finally ==
    /\ pc = "finally"
    /\ CleanupEffect
    /\ workflow_result' = [workflow_result EXCEPT !.cleanup_completed = TRUE]
    /\ pc' = IF raised = NoError THEN "returned" ELSE "raised"
    /\ UNCHANGED <<entry, dry_run, pending, raised, clicks, log_calls, history, stages>>
    /\ UNCHANGED <<clVars, vaVars, ehVars, dtVars, stVars, brVars>>

\* execute_workflow Step 3: _analyze_interface never raises
AnalyzeInterface ==
    /\ pc = "interface_analysis"
    /\ stages' = Append(stages, "interface_analysis")
    /\ \E c \in AnalysisConfidences :
         workflow_result' = [workflow_result EXCEPT
                                !.interface_analysis = [detection_confidence |-> c],
                                !.step_completed = "interface_analysis"]
    /\ pc' = "workflow_log"
    /\ UNCHANGED <<entry, dry_run, browser_impl, pending, raised, cleanup_calls, close_calls,
                   clicks, log_calls, history>>
    /\ UNCHANGED <<clVars, vaVars, ehVars, dtVars, stVars, brVars>>

\* execute_workflow Step 4: state_manager.log_execution_result, called unguarded
WorkflowLogSuccess ==
    /\ pc = "workflow_log"
    /\ stages' = Append(stages, "logging")
    /\ log_calls' = log_calls + 1
    /\ \/ /\ history' = Append(history, [success |-> TRUE,
                                         step_completed |-> workflow_result.step_completed])
          /\ workflow_result' = [workflow_result EXCEPT !.success = TRUE]
          /\ pc' = "returned"
          /\ UNCHANGED pending
       \/ /\ Caught([type |-> "StateManagementError", msg |-> PrefixLogFailed \o MsgNoSpace])
          /\ UNCHANGED <<history, workflow_result>>
    /\ UNCHANGED <<entry, dry_run, browser_impl, raised, cleanup_calls, close_calls, clicks>>
    /\ UNCHANGED <<clVars, vaVars, ehVars, dtVars, stVars, brVars>>

\* the except block of execute_workflow
WorkflowExcept ==
    /\ pc = "except"
    /\ entry = "execute_workflow"
    /\ \E shot_ok \in BOOLEAN :
         workflow_result' =
             [workflow_result EXCEPT
                 !.errors = Append(@, pending.msg),
                 !.screenshots = IF shot_ok THEN Append(@, "workflow_error") ELSE @]
    /\ log_calls' = log_calls + 1
    /\ \/ /\ history' = Append(history, [success |-> FALSE, error |-> pending.msg,
                                         step_completed |-> workflow_result.step_completed])
          /\ raised' = [type |-> "AutomationError",
                        msg |-> PrefixWorkflow \o StepText(workflow_result.step_completed)
                                \o ColonSpace \o pending.msg]
       \/ /\ raised' = [type |-> "StateManagementError", msg |-> PrefixLogFailed \o MsgNoSpace]
          /\ UNCHANGED history
    /\ pc' = "raised"
    /\ UNCHANGED <<entry, dry_run, browser_impl, pending, cleanup_calls, close_calls,
                   clicks, stages>>
    /\ UNCHANGED <<clVars, vaVars, ehVars, dtVars, stVars, brVars>>

(***************************************************************************)
(* Specifications                                                          *)
(***************************************************************************)
(***************************************************************************)
(* StateManager (src/src/state/manager.py)                                 *)
(* Coroutines are tasks; a task gives way to the others where the code     *)
(* awaits the lock, and the model also lets it give way between the steps  *)
(* of a file access.  A timestamp is a number: ISO strings of one format   *)
(* compare as the instants they denote.                                    *)
(***************************************************************************)
Tasks == {1, 2}

\* lines the history file can hold, and the timestamps 1..MaxHistory
MaxHistory == 2

Stamps == 1..MaxHistory

NoCall == [name |-> "none"]

NoResult == [kind |-> "none"]

\* the StateManager methods a task can call, with their arguments; an optional
\* argument is <<>> when absent (None) and <<v>> when given
StateManagerCalls ==
    {[name |-> "log_execution_result", timestamp |-> s] :
        s \in {<<>>} \cup {<<v>> : v \in Stamps}}
    \cup {[name |-> "get_execution_history", limit |-> k] :
             k \in {<<>>} \cup {<<v>> : v \in 0..(MaxHistory + 1)}}
    \cup {[name |-> "get_last_execution_result", limit |-> <<1>>]}
    \cup {[name |-> "cleanup_old_logs", limit |-> <<>>, cutoff |-> s, holding |-> FALSE] :
             s \in Stamps}

IdleSt ==
    /\ lock_owner = 0
    /\ history_file = <<>>
    /\ task_pc = [t \in Tasks |-> "idle"]
    /\ task_call = [t \in Tasks |-> NoCall]
    /\ task_result = [t \in Tasks |-> NoResult]

\* log_execution_result calls that have not written their line yet
WritesInFlight ==
    {t \in Tasks : /\ task_call[t].name = "log_execution_result"
                   /\ task_pc[t] \in {"acquire", "write"}}

\* a task calls a method; every method starts by awaiting self._lock
\* (get_last_execution_result inside the get_execution_history it calls)
StateManagerCall(t) ==
    /\ task_pc[t] = "idle"
    /\ \E c \in StateManagerCalls :
         /\ c.name = "log_execution_result" =>
               Len(history_file) + Cardinality(WritesInFlight) < MaxHistory
         /\ task_call' = [task_call EXCEPT ![t] = c]
    /\ task_pc' = [task_pc EXCEPT ![t] = "acquire"]
    /\ UNCHANGED <<lock_owner, history_file, task_result>>
    /\ UNCHANGED <<wfVars, clVars, vaVars, ehVars, dtVars, brVars>>

\* a variant of the lock that lets every task in
AcquireLock_NoLock(t) ==
    /\ task_pc[t] = "acquire"
    /\ lock_owner' = t
    /\ IF task_call[t].name = "log_execution_result"
       THEN task_pc' = [task_pc EXCEPT ![t] = "write"] /\ UNCHANGED task_call
       ELSE IF task_call[t].name = "cleanup_old_logs" /\ ~task_call[t].holding
       THEN /\ task_call' = [task_call EXCEPT ![t].holding = TRUE]
            /\ UNCHANGED task_pc
       ELSE task_pc' = [task_pc EXCEPT ![t] = "read"] /\ UNCHANGED task_call
    /\ UNCHANGED <<history_file, task_result>>
    /\ UNCHANGED <<wfVars, clVars, vaVars, ehVars, dtVars, brVars>>

\* async with self._lock: the lock is taken when it is free, by its holder no
\* more than by another task.  cleanup_old_logs, once inside, calls
\* get_execution_history, which awaits the same lock
AcquireLock(t) ==
    /\ task_pc[t] = "acquire"
    /\ lock_owner = 0
    /\ lock_owner' = t
    /\ IF task_call[t].name = "log_execution_result"
       THEN task_pc' = [task_pc EXCEPT ![t] = "write"] /\ UNCHANGED task_call
       ELSE IF task_call[t].name = "cleanup_old_logs" /\ ~task_call[t].holding
       THEN /\ task_call' = [task_call EXCEPT ![t].holding = TRUE]
            /\ UNCHANGED task_pc
       ELSE task_pc' = [task_pc EXCEPT ![t] = "read"] /\ UNCHANGED task_call
    /\ UNCHANGED <<history_file, task_result>>
    /\ UNCHANGED <<wfVars, clVars, vaVars, ehVars, dtVars, brVars>>

\* log_execution_result: the timestamp is filled in when absent, the file is
\* opened for appending and the line is written; a failure raises
\* StateManagementError and leaves the lock
WriteLine(t) ==
    /\ task_pc[t] = "write"
    /\ \/ \E now \in (IF task_call[t].timestamp = <<>>
                      THEN Stamps ELSE {task_call[t].timestamp[1]}) :
            /\ history_file' = Append(history_file,
                                      [timestamp |-> now, run |-> Len(history_file) + 1,
                                       whole |-> FALSE])
            /\ task_result' = [task_result EXCEPT
                                  ![t] = [kind |-> "writing",
                                          value |-> Len(history_file) + 1]]
            /\ task_pc' = [task_pc EXCEPT ![t] = "flush"]
            /\ UNCHANGED lock_owner
       \/ /\ task_result' = [task_result EXCEPT
                                ![t] = [kind |-> "raised",
                                        value |-> "StateManagementError"]]
          /\ task_pc' = [task_pc EXCEPT ![t] = "done"]
          /\ lock_owner' = 0
          /\ UNCHANGED history_file
    /\ UNCHANGED task_call
    /\ UNCHANGED <<wfVars, clVars, vaVars, ehVars, dtVars, brVars>>

\* the end of the with-block: the line is complete in the file, the lock is left
FlushLine(t) ==
    /\ task_pc[t] = "flush"
    /\ history_file' = [history_file EXCEPT ![task_result[t].value].whole = TRUE]
    /\ task_result' = [task_result EXCEPT ![t].kind = "logged"]
    /\ task_pc' = [task_pc EXCEPT ![t] = "done"]
    /\ lock_owner' = 0
    /\ UNCHANGED task_call
    /\ UNCHANGED <<wfVars, clVars, vaVars, ehVars, dtVars, brVars>>

\* the body of get_execution_history on the lines of the file: lines that do
\* not parse are skipped, the records are sorted by timestamp with
\* reverse=True (equal timestamps keep their file order), and
\* "if limit: history = history[:limit]"
GetExecutionHistory(lines, limit) ==
    LET parsed == SelectSeq(lines, LAMBDA l : l.whole)
        rank(i) == 1 + Cardinality({j \in DOMAIN parsed :
                                      \/ parsed[j].timestamp > parsed[i].timestamp
                                      \/ /\ parsed[j].timestamp = parsed[i].timestamp
                                         /\ j < i})
        records == [k \in DOMAIN parsed |-> parsed[CHOOSE i \in DOMAIN parsed : rank(i) = k]]
    IN  IF limit # <<>> /\ limit[1] # 0
        THEN SubSeq(records, 1, IF limit[1] < Len(records) THEN limit[1] ELSE Len(records))
        ELSE records

\* get_execution_history inside the lock, and what its caller does with the
\* answer: get_last_execution_result takes the first record or None (<<>>),
\* cleanup_old_logs rewrites the file with the records not older than the
\* cutoff, oldest first
ReadHistory(t) ==
    /\ task_pc[t] = "read"
    /\ LET records == GetExecutionHistory(history_file, task_call[t].limit)
           kept == SelectSeq(records, LAMBDA r : r.timestamp >= task_call[t].cutoff)
       IN  IF task_call[t].name = "get_execution_history"
           THEN /\ task_result' = [task_result EXCEPT
                                      ![t] = [kind |-> "history", value |-> records]]
                /\ UNCHANGED history_file
           ELSE IF task_call[t].name = "get_last_execution_result"
           THEN /\ task_result' = [task_result EXCEPT
                                      ![t] = [kind |-> "record",
                                              value |-> IF records = <<>> THEN <<>>
                                                        ELSE <<records[1]>>]]
                /\ UNCHANGED history_file
           ELSE /\ task_result' = [task_result EXCEPT
                                      ![t] = [kind |-> "cleaned", value |-> Len(kept)]]
                /\ history_file' =
                     IF records = <<>> THEN history_file
                     ELSE [k \in DOMAIN kept |-> kept[Len(kept) + 1 - k]]
    /\ task_pc' = [task_pc EXCEPT ![t] = "done"]
    /\ lock_owner' = 0
    /\ UNCHANGED task_call
    /\ UNCHANGED <<wfVars, clVars, vaVars, ehVars, dtVars, brVars>>

\* the caller has its answer; the task is free for another call
TaskReturn(t) ==
    /\ task_pc[t] = "done"
    /\ task_pc' = [task_pc EXCEPT ![t] = "idle"]
    /\ task_call' = [task_call EXCEPT ![t] = NoCall]
    /\ task_result' = [task_result EXCEPT ![t] = NoResult]
    /\ UNCHANGED <<lock_owner, history_file>>
    /\ UNCHANGED <<wfVars, clVars, vaVars, ehVars, dtVars, brVars>>

(***************************************************************************)
(* BrowserManager (src/src/browser/manager.py)                             *)
(***************************************************************************)
\* the framework names a BrowserManager can be constructed with
Frameworks == {"playwright", "selenium", "unsupported"}

\* how importing, constructing and launching a backend can end
BackendOutcomes == {"ok", "ImportError", "Exception"}

\* where in the try block a backend fails: at the import and construction of
\* the implementation, or in its launch()
BackendStages == {"construct", "launch"}

\* initialize() calls made on one manager
MaxInitCalls == 3

IdleBr ==
    /\ framework = NoneVal
    /\ bpc = "none"
    /\ backend_log = <<>>
    /\ init_calls = 0
    /\ init_result = NoneVal

\* BrowserManager(framework)
NewBrowserManager ==
    /\ bpc = "none"
    /\ framework' \in Frameworks
    /\ bpc' = "idle"
    /\ UNCHANGED <<backend_log, init_calls, init_result>>
    /\ UNCHANGED <<wfVars, clVars, vaVars, ehVars, dtVars, stVars>>

\* initialize() is called on the manager
InitializeCall ==
    /\ bpc \in {"idle", "returned", "raised"}
    /\ init_calls < MaxInitCalls
    /\ init_calls' = init_calls + 1
    /\ init_result' = NoneVal
    /\ bpc' = "try"
    /\ UNCHANGED <<framework, backend_log>>
    /\ UNCHANGED <<wfVars, clVars, vaVars, ehVars, dtVars, stVars>>

\* a variant that falls back on every failure of Playwright
TryBackend_FallbackOnAnyError ==
    /\ bpc = "try"
    /\ \E outcome \in BackendOutcomes, stage \in BackendStages :
         LET failure == IF framework \notin {"playwright", "selenium"}
                        THEN "ValueError" ELSE outcome
         IN  /\ failure = "ok" => stage = "launch"
             /\ failure = "ValueError" => stage = "construct" /\ outcome = "ok"
             /\ backend_log' = Append(backend_log, [call |-> init_calls,
                                                    framework |-> framework,
                                                    outcome |-> failure,
                                                    stage |-> stage])
             /\ IF failure = "ok"
                THEN /\ init_result' = framework
                     /\ bpc' = "returned"
                     /\ UNCHANGED framework
                ELSE IF framework = "playwright"
                THEN /\ framework' = "selenium"
                     /\ UNCHANGED <<bpc, init_result>>
                ELSE IF failure = "ImportError"
                THEN /\ init_result' = "ImportError"
                     /\ bpc' = "raised"
                     /\ UNCHANGED framework
                ELSE /\ init_result' = "RuntimeError"
                     /\ bpc' = "raised"
                     /\ UNCHANGED framework
    /\ UNCHANGED init_calls
    /\ UNCHANGED <<wfVars, clVars, vaVars, ehVars, dtVars, stVars>>

\* one pass through the body of initialize(): the try block for
\* self.framework and the handler its failure reaches.  An unsupported name
\* raises ValueError inside the try block; ImportError with Playwright sets
\* self.framework to "selenium" and calls initialize() again
TryBackend ==
    /\ bpc = "try"
    /\ \E outcome \in BackendOutcomes, stage \in BackendStages :
         LET failure == IF framework \notin {"playwright", "selenium"}
                        THEN "ValueError" ELSE outcome
         IN  /\ failure = "ok" => stage = "launch"
             /\ failure = "ValueError" => stage = "construct" /\ outcome = "ok"
             /\ backend_log' = Append(backend_log, [call |-> init_calls,
                                                    framework |-> framework,
                                                    outcome |-> failure,
                                                    stage |-> stage])
             /\ IF failure = "ok"
                THEN /\ init_result' = framework
                     /\ bpc' = "returned"
                     /\ UNCHANGED framework
                ELSE IF failure = "ImportError" /\ framework = "playwright"
                THEN /\ framework' = "selenium"
                     /\ UNCHANGED <<bpc, init_result>>
                ELSE IF failure = "ImportError"
                THEN /\ init_result' = "ImportError"
                     /\ bpc' = "raised"
                     /\ UNCHANGED framework
                ELSE /\ init_result' = "RuntimeError"
                     /\ bpc' = "raised"
                     /\ UNCHANGED framework
    /\ UNCHANGED init_calls
    /\ UNCHANGED <<wfVars, clVars, vaVars, ehVars, dtVars, stVars>>

Init == IdleWf /\ IdleCl /\ IdleVa /\ IdleEh /\ IdleDt /\ IdleSt /\ IdleBr

\* the orchestrator: initialize, then one workflow method
Next ==
    \/ Initialize
    \/ CallExecuteCheckin
    \/ CallExecuteWorkflow
    \/ NavigateToHoyolab
    \/ CloseBlockingModals
    \/ Authenticate
    \/ DetectRewards
    \/ ClaimReward
    \/ DryRunComplete
    \/ NoRewardsToClaim
    \/ ValidateClaim
    \/ LogAndComplete
    \/ CheckinExcept
    \/ Finally
    \/ AnalyzeInterface
    \/ WorkflowLogSuccess
    \/ WorkflowExcept

Spec == Init /\ [][Next]_vars

\* __aexit__ of "async with AutomationOrchestrator() as orchestrator": control
\* leaves the block after initialize() raised or after the workflow method
\* returned or raised, and cleanup() runs once more
ContextExit ==
    /\ pc \in {"init_failed", "returned", "raised"}
    /\ CleanupEffect
    /\ pc' = "exited"
    /\ UNCHANGED <<entry, dry_run, workflow_result, pending, raised, clicks, log_calls,
                   history, stages>>
    /\ UNCHANGED <<clVars, vaVars, ehVars, dtVars, stVars, brVars>>

\* the orchestrator as the entry point uses it, inside its context manager
NextLifetime ==
    \/ Next
    \/ ContextExit

SpecLifetime == Init /\ [][NextLifetime]_vars

\* the claim engine: one call of claim_available_rewards
NextClaim ==
    \/ ClaimAvailableRewardsCall
    \/ BeginReward
    \/ ClickAttempt
    \/ ConfirmProbe
    \/ SettleReward
    \/ RecordReward
    \/ FinishBatch

SpecClaim == Init /\ [][NextClaim]_vars

\* the claim validator: one call of validate_claim_success
NextValidate == ValidateClaimSuccessCall

SpecValidate == Init /\ [][NextValidate]_vars

\* the error classifier: one call of handle_claiming_errors
NextErrors == HandleClaimingErrorsCall

SpecErrors == Init /\ [][NextErrors]_vars

\* the detection engine on its own: one call of analyze_interface or of
\* detect_reward_availability
NextDetect ==
    \/ AnalyzeInterfaceCall
    \/ DetectRewardAvailabilityCall
    \/ RunStrategy
    \/ FinishAnalysis
    \/ ReturnLowConfidence
    \/ ClassifyStates
    \/ MergeDetectionResultsCall

SpecDetect == Init /\ [][NextDetect]_vars

\* tasks calling into one StateManager
NextState ==
    \E t \in Tasks :
        \/ StateManagerCall(t)
        \/ AcquireLock(t)
        \/ WriteLine(t)
        \/ FlushLine(t)
        \/ ReadHistory(t)
        \/ TaskReturn(t)

SpecState == Init /\ [][NextState]_vars

\* one BrowserManager, constructed and initialized
NextBrowser ==
    \/ NewBrowserManager
    \/ InitializeCall
    \/ TryBackend

SpecBrowser == Init /\ [][NextBrowser]_vars

\* the event loop runs every task that can go on, and asyncio.Lock wakes its
\* waiters first come first served, so a waiter that finds the lock free again
\* and again gets it
SpecStateLive ==
    SpecState /\ \A t \in Tasks :
                    /\ SF_vars(AcquireLock(t))
                    /\ WF_vars(WriteLine(t) \/ FlushLine(t) \/ ReadHistory(t))

(***************************************************************************)
(* Properties                                                              *)
(***************************************************************************)
Range(q) == {q[i] : i \in DOMAIN q}

InCheckin == entry = "execute_checkin"

Left == pc \in {"returned", "raised"}

\* C1: every execution of execute_checkin, returning or raising, has invoked
\* cleanup exactly once when control leaves it (and not before the finally
\* block), and workflow_result then has cleanup_completed = true.
C1_CleanupOnceOnExit ==
    InCheckin =>
        /\ Left => (cleanup_calls = 1 /\ workflow_result.cleanup_completed = TRUE)
        /\ ~Left => (cleanup_calls = 0 /\ workflow_result.cleanup_completed = FALSE)

\* a run that raised at the authentication stage has left after one cleanup
C1_Witness ==
    /\ InCheckin /\ pc = "raised"
    /\ pending.type = "AuthenticationError"
    /\ cleanup_calls = 1
    /\ workflow_result.cleanup_completed = TRUE

\* the stage whose code is running or about to run at each position
LastStage == IF stages = <<>> THEN NoneVal ELSE stages[Len(stages)]

C3_SuccessNeedsConfirmation ==
    /\ cpc = "record" =>
          claim_result.success =
              (claim_result.clicked
               /\ (confirmation_result.confirmed \/ ~confirmation_result.dialog_found))
    /\ \A i \in DOMAIN claiming_result.successful_claims :
          LET d == claiming_result.successful_claims[i].claim_details
          IN  d.clicked /\ d.confirmed

\* the availability-weighted mean sum(w_i * c_i) / sum(w_i) over present groups
AvailabilityWeightedMean(vr) ==
    LET ui == vr.ui_feedback_detected
        sc == vr.state_changes_detected
        si == vr.success_indicators
        wsum == (IF ui # <<>> THEN UiFeedbackWeight ELSE 0)
                + (IF sc # <<>> THEN StateChangeWeight ELSE 0)
                + (IF si # <<>> THEN SuccessIndicatorWeight ELSE 0)
        total == FracSum(ConfidenceFactors(vr))
    IN  IF wsum = 0 THEN <<0, 1>> ELSE <<total[1] * 10, total[2] * wsum>>

OnlyUiAtNinety(vr) ==
    /\ vr.ui_feedback_detected # <<>>
    /\ \A i \in DOMAIN vr.ui_feedback_detected : vr.ui_feedback_detected[i].confidence = 90
    /\ vr.state_changes_detected = <<>>
    /\ vr.success_indicators = <<>>

\* C4 as stated: validation_confidence equals the availability-weighted mean
\* of the group averages; with only UI feedback at 0.9 it is 0.9.
C4_AvailabilityWeightedMean ==
    vpc = "done" =>
        /\ FracEq(validation_result.validation_confidence,
                  AvailabilityWeightedMean(validation_result))
        /\ OnlyUiAtNinety(validation_result) =>
              FracEq(validation_result.validation_confidence, <<90, 1>>)

\* all max_retries click attempts on reward i were made and none succeeded
AllClicksFailed(i) ==
    /\ click_log[i].reward_clicks = max_retries
    /\ click_log[i].failed_clicks = max_retries

\* C5 as stated: a reward whose 3 click attempts all failed has success = false
\* with the 'failed to click after 3 attempts' error, and is filed in
\* failed_claims with that error.
C5_ExhaustedRetriesError ==
    /\ (cpc = "record" /\ AllClicksFailed(ri)) =>
          /\ ~claim_result.success
          /\ claim_result.error = [kind |-> "failed_to_click_after", attempts |-> max_retries]
    /\ \A k \in DOMAIN claiming_result.failed_claims :
          LET f == claiming_result.failed_claims[k]
          IN  AllClicksFailed(f.attempt_number) =>
                 f.error = [kind |-> "failed_to_click_after", attempts |-> max_retries]

\* a dry run of execute_checkin
InDryRun == InCheckin /\ dry_run

\* C6 as stated: in a dry run no click is issued on the browser at any point,
\* the reward-claiming and claim-validation stages are never entered, and the
\* run returns with step_completed = dry_run_complete and
\* claiming_results = {dry_run: true, success: true}.
C6_DryRunIssuesNoClick ==
    InDryRun =>
        /\ clicks = {}
        /\ "reward_claiming" \notin Range(stages)
        /\ "claim_validation" \notin Range(stages)
        /\ pc = "returned" =>
              /\ workflow_result.step_completed = "dry_run_complete"
              /\ workflow_result.claiming_results = [dry_run |-> TRUE, success |-> TRUE]

\* C6 amended: in a dry run no click is issued on a reward, the reward-claiming
\* and claim-validation stages are never entered, and a run that returns ends
\* with step_completed = dry_run_complete and claiming_results =
\* {dry_run: true, success: true}; the only clicks a dry run issues are those
\* of modal dismissal and of the form login.
C6_DryRunClaimsNothing ==
    InDryRun =>
        /\ clicks \subseteq {"modal_close", "login"}
        /\ "reward_claiming" \notin Range(stages)
        /\ "claim_validation" \notin Range(stages)
        /\ pc = "returned" =>
              /\ workflow_result.step_completed = "dry_run_complete"
              /\ workflow_result.claiming_results = [dry_run |-> TRUE, success |-> TRUE]

\* a dry run that dismissed a modal, detected a claimable reward and returned
C6_Witness ==
    /\ InDryRun /\ pc = "returned"
    /\ "modal_close" \in clicks
    /\ workflow_result.reward_detection.claimable_rewards # <<>>
    /\ workflow_result.step_completed = "dry_run_complete"

\* C7 as stated: when the authentication stage returns false, execute_checkin
\* and execute_workflow raise an AutomationError whose message names the
\* authentication step, with step_completed = "authentication" and
\* authentication_success = false at the raise.
C7_AuthFalseRaisesStepError ==
    (pc = "raised" /\ pending.type = "AuthenticationError") =>
        /\ raised.type = "AutomationError"
        /\ Contains(raised.msg, StepText("authentication"))
        /\ workflow_result.step_completed = "authentication"
        /\ workflow_result.authentication_success = FALSE

\* the authentication stage of execute_checkin has run and returned false
AuthFailed ==
    /\ InCheckin
    /\ "authentication" \in Range(stages)
    /\ workflow_result.authentication_success = FALSE

LoginPageDetected == \E s \in login_selectors : env.login[s] = "found"

NoStageAfterAuthentication ==
    /\ pc \in {"except", "finally", "raised"}
    /\ Range(stages) \cap {"reward_detection", "reward_claiming", "claim_validation"} = {}

\* C8 as stated: after the authentication stage of execute_checkin fails, no
\* detection, claiming or validation stage is started, and the error-handling
\* result attached to the workflow has retry_recommended = false whatever the
\* page shows.
C8_AuthFailureNeverRetry ==
    AuthFailed =>
        /\ NoStageAfterAuthentication
        /\ pc \in {"finally", "raised"} =>
              workflow_result.error_handling.retry_recommended = FALSE

\* C8 amended: after the authentication stage of execute_checkin fails, no
\* detection, claiming or validation stage is started and the workflow raises;
\* the attached error-handling result comes from the AuthenticationFailure
\* branch and has retry_recommended = false exactly when a login-page
\* indicator is detected while the error is classified, and true otherwise.
C8_AuthFailureHardStop ==
    AuthFailed =>
        /\ NoStageAfterAuthentication
        /\ pc \in {"finally", "raised"} =>
              /\ handler = "AuthenticationFailure"
              /\ workflow_result.error_handling.retry_recommended = ~LoginPageDetected

\* authentication failed, the login page was seen, the workflow has raised
C8_Witness ==
    /\ AuthFailed /\ pc = "raised"
    /\ LoginPageDetected
    /\ workflow_result.error_handling.retry_recommended = FALSE

\* C9 as stated: an error whose type is AuthenticationError (resp.
\* ElementNotFoundError, UIChangeError) is always handled by the
\* AuthenticationFailure (resp. ElementNotFound, UIChange) branch, whatever
\* its message contains.
C9_TypeBeforeMessage ==
    epc = "done" =>
        /\ IsInstance(error.type, "AuthenticationError") => handler = "AuthenticationFailure"
        /\ IsInstance(error.type, "ElementNotFoundError") => handler = "ElementNotFound"
        /\ IsInstance(error.type, "UIChangeError") => handler = "UIChange"

MessageHasAuth == Contains(Lower(error.msg), KwAuth)

\* what the AuthenticationFailure branch promises for the page shown
AuthHandlingShape ==
    /\ LoginPageDetected =>
          /\ handling_result.retry_recommended = FALSE
          /\ handling_result.fallback_available = TRUE
    /\ ~LoginPageDetected => handling_result.retry_recommended = TRUE

\* C10 as stated: for every error whose message contains 'auth' (any case), a
\* detected login-page indicator gives retry_recommended = false and
\* fallback_available = true, and none detected gives retry_recommended = true.
C10_AuthMessageShape ==
    (epc = "done" /\ MessageHasAuth) => AuthHandlingShape

\* the error is taken by the timeout or the not-found test of the chain
TakenEarlier ==
    \/ IsInstance(error.type, "NetworkTimeoutError")
    \/ IsInstance(error.type, "TimeoutError")
    \/ IsInstance(error.type, "ElementNotFoundError")
    \/ Contains(Lower(error.msg), KwTimeout)
    \/ Contains(Lower(error.msg), KwNotFound)

\* C10 amended: for every error whose message contains 'auth' (any case) and
\* that the timeout and not-found tests do not take first (its type is none
\* of NetworkTimeoutError, TimeoutError, ElementNotFoundError and its message
\* contains neither 'timeout' nor 'not found'), a detected login-page
\* indicator gives retry_recommended = false and fallback_available = true,
\* and none detected gives retry_recommended = true.
C10_AuthBranchShape ==
    (epc = "done" /\ MessageHasAuth /\ ~TakenEarlier) =>
        /\ handler = "AuthenticationFailure"
        /\ AuthHandlingShape

\* an untyped 'auth rejected' error classified while the login page is shown
C10_Witness ==
    /\ epc = "done"
    /\ error = [type |-> "Exception", msg |-> MsgAuthRejected]
    /\ LoginPageDetected
    /\ handling_result.retry_recommended = FALSE
    /\ handling_result.fallback_available = TRUE

MessageHasTimeout == Contains(Lower(error.msg), KwTimeout)

\* C11: every error whose message contains 'timeout' in any letter case is
\* handled by the NetworkTimeout branch; the result has retry_recommended =
\* true and fallback_available = true whether or not the liveness re-check
\* succeeds, and recovery_success is true iff the browser answers the
\* current-URL query.
C11_TimeoutAlwaysRetry ==
    (epc = "done" /\ MessageHasTimeout) =>
        /\ handler = "NetworkTimeout"
        /\ handling_result.recovery_attempted = TRUE
        /\ handling_result.retry_recommended = TRUE
        /\ handling_result.fallback_available = TRUE
        /\ handling_result.recovery_success = (env.url = "ok")

\* an upper-case 'Timeout' message handled while the browser does not answer
C11_Witness ==
    /\ epc = "done"
    /\ error = [type |-> "Exception", msg |-> MsgTimeoutExceeded]
    /\ env.url = "raises"
    /\ handling_result.retry_recommended = TRUE
    /\ handling_result.recovery_success = FALSE

Started(stage) == stage \in Range(stages)

\* C12: execute_checkin starts the reward-claiming stage only if dry_run is
\* false and the detection result's claimable_rewards is non-empty, and starts
\* the claim-validation stage only if the claiming stage ran in the same run
\* and reported success = true.
C12_ClaimAndValidateGuards ==
    InCheckin =>
        /\ Started("reward_claiming") =>
              /\ ~dry_run
              /\ workflow_result.reward_detection.claimable_rewards # <<>>
        /\ (pc = "claim_validation" \/ Started("claim_validation")) =>
              /\ Started("reward_claiming")
              /\ workflow_result.claiming_results.success = TRUE

\* the claiming stage ran and reported failure: validation was not started
C12_Witness ==
    /\ InCheckin /\ pc = "returned"
    /\ Started("reward_claiming")
    /\ workflow_result.claiming_results.success = FALSE
    /\ ~Started("claim_validation")

\* C13 as stated: every run of execute_checkin and of execute_workflow has
\* invoked execution-result logging exactly once when it returns or raises,
\* on the success path and on every exception path, also when the history
\* sink fails.
C13_LoggedExactlyOnce ==
    (entry # "none" /\ Left) => log_calls = 1

\* the except block of execute_checkin has run
CheckinHandled == InCheckin /\ pending # NoError /\ pc \in {"finally", "raised"}

\* C14: whatever exception a stage of execute_checkin raises, and whatever
\* happens inside error classification, debug-screenshot capture or result
\* logging, the exception that leaves execute_checkin is one AutomationError
\* whose message contains the original error message, and the original
\* message is appended to the errors list of the result.
C14_SingleAggregateError ==
    /\ (InCheckin /\ pc = "raised") => pending # NoError
    /\ CheckinHandled =>
          /\ raised.type = "AutomationError"
          /\ Contains(raised.msg, pending.msg)
          /\ workflow_result.errors = <<pending.msg>>

\* navigation raised; the liveness probe raised, no screenshot, the sink failed
C14_Witness ==
    /\ InCheckin /\ pc = "raised"
    /\ pending = [type |-> "RuntimeError", msg |-> MsgBrowserNotInitialized]
    /\ env.url = "raises"
    /\ workflow_result.screenshots = <<>>
    /\ log_calls = 1 /\ history = <<>>
    /\ raised.type = "AutomationError"

\* click_element calls issued during the batch, over all rewards
NoClickIssued ==
    \A i \in DOMAIN click_log :
        click_log[i].reward_clicks = 0 /\ click_log[i].confirm_clicks = 0

\* C15: claim_available_rewards called with a detection result whose
\* claimable_rewards is empty returns success = true, claims_processed = 0
\* and empty successful_claims, without invoking the browser's click
\* operation.
C15_EmptyListIsSuccess ==
    /\ (cpc # "idle" /\ detection_given /\ rewards = <<>>) => cpc = "done"
    /\ (cpc = "done" /\ detection_given /\ rewards = <<>>) =>
          /\ claiming_result.success = TRUE
          /\ claiming_result.claims_processed = 0
          /\ claiming_result.successful_claims = <<>>
          /\ claiming_result.failed_claims = <<>>
          /\ NoClickIssued

\* the call with an empty claimable list has returned
C15_Witness ==
    /\ cpc = "done" /\ detection_given /\ rewards = <<>>
    /\ claiming_result.success = TRUE
    /\ claiming_result.total_attempts = 0

\* rewards whose loop iteration has completed
RewardsProcessed ==
    IF cpc \in {"reward", "click", "confirm", "settle", "record"} THEN ri - 1
    ELSE Len(rewards)

\* every reward carries a selector and no click_element call on a reward failed
ClickAlwaysSucceeds ==
    /\ \A i \in DOMAIN rewards : rewards[i].selector # NoneVal
    /\ \A i \in DOMAIN click_log : click_log[i].failed_clicks = 0

\* C16: while claim_available_rewards iterates and when it returns,
\* len(successful_claims) = claims_processed <= total_attempts and
\* len(successful_claims) + len(failed_claims) is the number of rewards
\* processed so far; with N claimable rewards and a browser whose click always
\* succeeds the result has claims_processed = N and N successful claims.
C16_BatchCounters ==
    /\ cpc \notin {"idle", "raised"} =>
          /\ Len(claiming_result.successful_claims) = claiming_result.claims_processed
          /\ claiming_result.claims_processed <= claiming_result.total_attempts
          /\ Len(claiming_result.successful_claims) + Len(claiming_result.failed_claims)
                = RewardsProcessed
    /\ (cpc = "done" /\ ClickAlwaysSucceeds) =>
          /\ claiming_result.claims_processed = Len(rewards)
          /\ Len(claiming_result.successful_claims) = Len(rewards)

\* two rewards, every click succeeded, both claimed
C16_Witness ==
    /\ cpc = "done" /\ Len(rewards) = 2
    /\ ClickAlwaysSucceeds
    /\ claiming_result.claims_processed = 2
    /\ Len(claiming_result.successful_claims) = 2
    /\ claiming_result.failed_claims = <<>>

\* attempt numbers filed so far, in either list
FiledAttempts(claims) == {claims[k].attempt_number : k \in DOMAIN claims}

\* attempt numbers of a list grow along the list
InListOrder(claims) ==
    \A j, k \in DOMAIN claims : j < k => claims[j].attempt_number < claims[k].attempt_number

\* C17: a reward whose click fails on all 3 attempts (returning false or
\* raising) is recorded in failed_claims and every later reward of the batch
\* is still attempted: each of the N rewards is attempted exactly once, in
\* list order.
C17_FailureDoesNotAbortBatch ==
    /\ cpc \notin {"idle", "raised"} =>
          Len(click_log) = (IF cpc = "reward" THEN ri - 1
                            ELSE IF cpc \in {"click", "confirm", "settle", "record"} THEN ri
                            ELSE Len(rewards))
    /\ \A i \in 1..RewardsProcessed :
          AllClicksFailed(i) => i \in FiledAttempts(claiming_result.failed_claims)
    /\ cpc \notin {"idle", "raised"} =>
          /\ FiledAttempts(claiming_result.successful_claims)
                \cup FiledAttempts(claiming_result.failed_claims) = 1..RewardsProcessed
          /\ InListOrder(claiming_result.successful_claims)
          /\ InListOrder(claiming_result.failed_claims)
    /\ cpc = "done" =>
          /\ Len(click_log) = Len(rewards)
          /\ \A i \in DOMAIN rewards :
                rewards[i].selector # NoneVal => click_log[i].reward_clicks >= 1

\* the first reward failed all its clicks, the second was still claimed
C17_Witness ==
    /\ cpc = "done" /\ Len(rewards) = 2
    /\ AllClicksFailed(1)
    /\ claiming_result.failed_claims # <<>>
    /\ claiming_result.failed_claims[1].attempt_number = 1
    /\ click_log[2].reward_clicks >= 1
    /\ claiming_result.claims_processed = 1

\* C18 as stated: for every result returned by claim_available_rewards, the
\* batch success flag is true exactly when claims_processed > 0.
C18_SuccessIffProcessed ==
    cpc = "done" =>
        claiming_result.success = (claiming_result.claims_processed > 0)

\* C18 amended: for every result returned by claim_available_rewards over a
\* non-empty claimable list, success is true exactly when claims_processed > 0;
\* over an empty claimable list the result has success = true with
\* claims_processed = 0.
C18_SuccessIffProcessedOrEmpty ==
    cpc = "done" =>
        /\ rewards # <<>> =>
              claiming_result.success = (claiming_result.claims_processed > 0)
        /\ rewards = <<>> =>
              claiming_result.success = TRUE /\ claiming_result.claims_processed = 0

\* a non-empty batch in which no reward was claimed has returned
C18_Witness ==
    /\ cpc = "done" /\ rewards # <<>>
    /\ claiming_result.claims_processed = 0
    /\ claiming_result.success = FALSE
    /\ Len(claiming_result.failed_claims) = Len(rewards)

\* C19: when no strategy reports a non-empty found_elements (nothing found or
\* an exception), analyze_interface returns normally, and what it returns has
\* primary_strategy None, no fallback strategies and detection_confidence 0.
NoStrategyFound ==
    \A i \in DOMAIN strategy_results :
        strategy_results[i].raised \/ strategy_results[i].found_elements = 0

AnalysisReturned == dpc \in {"gate", "done"}

C19_NoStrategyFoundIsNormal ==
    /\ (dpc = "rank" /\ NoStrategyFound) => ENABLED FinishAnalysis
    /\ (AnalysisReturned /\ NoStrategyFound) =>
          /\ interface_analysis.primary_strategy = NoneVal
          /\ interface_analysis.fallback_strategies = <<>>
          /\ interface_analysis.detection_confidence = 0

\* analyze_interface has returned after one strategy raised, one failed in its
\* own handler and the others found nothing
C19_Witness ==
    /\ dpc = "done"
    /\ dentry = "analyze_interface"
    /\ NoStrategyFound
    /\ \E i \in DOMAIN strategy_results : strategy_results[i].raised
    /\ \E i \in DOMAIN strategy_results :
          ~strategy_results[i].raised /\ strategy_results[i].found_elements = 0
    /\ interface_analysis.primary_strategy = NoneVal

\* C20: every detection_confidence that analyze_interface or
\* detect_reward_availability returns lies between 0.0 and 1.0 (0..100 in
\* hundredths), whatever the registered strategies answered and however many
\* rewards were detected.
UnitInterval == 0..100

DetectionReturned == dpc = "done" /\ dentry = "detect_reward_availability"

C20_ConfidenceInUnitInterval ==
    /\ AnalysisReturned =>
          /\ interface_analysis.detection_confidence \in UnitInterval
          /\ "detection_confidence" \in DOMAIN interface_analysis.reward_states =>
                interface_analysis.reward_states.detection_confidence \in UnitInterval
    /\ DetectionReturned => reward_availability.detection_confidence \in UnitInterval

\* detection returned the cap: the best strategy's 0.8 plus the full reward bonus
C20_Witness ==
    /\ DetectionReturned
    /\ interface_analysis.detection_confidence = PriorConfidence[1]
    /\ reward_availability.total_rewards_found >= 3
    /\ reward_availability.detection_confidence = 100

\* C21: in analyze_interface a strategy whose detect_elements raises stops
\* nothing: every registered strategy is run, in registry order, the exception
\* does not leave analyze_interface, and a result is returned whenever a
\* strategy returned normally, if it found something or not.
RanInRegistryOrder ==
    \A i \in DOMAIN strategy_results : strategy_results[i].strategy = StrategyNames[i]

SomeStrategyReturned == \E i \in DOMAIN strategy_results : ~strategy_results[i].raised

C21_RaisingStrategyIsSkipped ==
    /\ RanInRegistryOrder
    /\ dpc = "strategies" => Len(strategy_results) = strategy_index - 1
    /\ (dpc = "rank" \/ AnalysisReturned) => Len(strategy_results) = Len(StrategyNames)
    /\ (dpc = "rank" /\ SomeStrategyReturned) => ENABLED FinishAnalysis
    /\ dpc \in {"idle", "strategies", "rank", "gate", "done", "merged"}

\* the first strategy raised and a later one became the primary strategy
C21_Witness ==
    /\ dpc = "done"
    /\ dentry = "analyze_interface"
    /\ strategy_results[1].raised
    /\ Len(strategy_results) = Len(StrategyNames)
    /\ interface_analysis.primary_strategy = StrategyNames[2]

\* C22: past the low-confidence gate the confidence detect_reward_availability
\* returns is at least the confidence interface analysis gave the primary
\* strategy, and each further fallback answer merged in leaves it the same or
\* higher.
PastGate == interface_analysis.detection_confidence >= LowConfidenceGate

ScoreAfterMerging(primary_states, answers, k) ==
    DetectRewardStatesWithConfidence(interface_analysis, primary_states,
                                     SubSeq(answers, 1, k)).detection_confidence

C22_ConfidenceNeverDecreases ==
    /\ (DetectionReturned /\ PastGate) =>
          reward_availability.detection_confidence >= interface_analysis.detection_confidence
    /\ (dpc = "gate" /\ PastGate) =>
          \A primary_states \in ClassifierOutcomes(interface_analysis.primary_strategy) :
          \A answers \in ClassifierAnswers(ConsultedFallbacks(interface_analysis)) :
             /\ ScoreAfterMerging(primary_states, answers, 0)
                   >= interface_analysis.detection_confidence
             /\ \A k \in 1..Len(answers) :
                   ScoreAfterMerging(primary_states, answers, k)
                      >= ScoreAfterMerging(primary_states, answers, k - 1)

\* a fallback classifier was consulted and its rewards raised the confidence
C22_Witness ==
    /\ DetectionReturned
    /\ PastGate
    /\ interface_analysis.detection_confidence < FallbackThreshold
    /\ Len(classifier_calls) >= 3
    /\ reward_availability.total_rewards_found > 0
    /\ reward_availability.detection_confidence > interface_analysis.detection_confidence

\* C23: _merge_detection_results is an order-preserving set union on each
\* reward list: the existing entries stay, in their order, at the front; what
\* is appended are the fallback's entries not already present (compared as
\* whole entries), each once, in the fallback's order; no list gets shorter;
\* everything else of the primary result is untouched; and merging the same
\* fallback result a second time changes nothing.
MergeReturned == dpc = "merged"

NewEntries(key) ==
    IF key \in DOMAIN merge_call.fallback_result
    THEN merge_call.fallback_result[key] ELSE <<>>

FirstIndex(q, x) == CHOOSE i \in DOMAIN q : q[i] = x /\ \A j \in 1..(i - 1) : q[j] # x

IsOrderedUnion(existing_items, new_items, merged_items) ==
    LET n == Len(existing_items)
        added == (n + 1)..Len(merged_items)
    IN  /\ Len(merged_items) >= n
        /\ SubSeq(merged_items, 1, n) = existing_items
        /\ Range(merged_items) = Range(existing_items) \cup Range(new_items)
        /\ \A i \in added : merged_items[i] \notin Range(existing_items)
        /\ \A i, j \in added : i < j =>
              /\ merged_items[i] # merged_items[j]
              /\ FirstIndex(new_items, merged_items[i])
                    < FirstIndex(new_items, merged_items[j])

C23_MergeIsOrderedUnion ==
    MergeReturned =>
       /\ DOMAIN merge_call.merged = DOMAIN merge_call.primary_result
       /\ \A key \in RewardFamilies :
             IsOrderedUnion(merge_call.primary_result[key], NewEntries(key),
                            merge_call.merged[key])
       /\ merge_call.merged.detection_confidence
             = merge_call.primary_result.detection_confidence
       /\ MergeDetectionResults(merge_call.merged, merge_call.fallback_result)
             = merge_call.merged

\* the fallback held the same entry twice, an entry that differs from the
\* existing one in confidence alone: it was appended, once
C23_Witness ==
    /\ MergeReturned
    /\ Len(merge_call.primary_result.claimable_rewards) = 1
    /\ Len(merge_call.fallback_result.claimable_rewards) = 2
    /\ merge_call.fallback_result.claimable_rewards[1]
          = merge_call.fallback_result.claimable_rewards[2]
    /\ Len(merge_call.merged.claimable_rewards) = 2
    /\ merge_call.merged.claimable_rewards[1].selector
          = merge_call.merged.claimable_rewards[2].selector

\* C24: every selector candidate a built-in strategy's detect_elements
\* produces carries a found flag and a confidence; the confidence is at most
\* 0.2 when found is false, and at least 0.7 when found is true and the
\* strategy was selected as primary.
CandidatesOf(i) ==
    {SelectorCandidates(strategy_results[i])[k] :
        k \in DOMAIN SelectorCandidates(strategy_results[i])}

C24_CandidateFloors ==
    \A i \in DOMAIN strategy_results :
       \A c \in CandidatesOf(i) :
          /\ {"found", "confidence"} \subseteq DOMAIN c
          /\ ~c.found => c.confidence <= 20
          /\ (c.found /\ AnalysisReturned
                /\ interface_analysis.primary_strategy = strategy_results[i].strategy)
                => c.confidence >= 70

\* C25: in execute_checkin the detection result comes from the detection
\* engine and the claim from the claim engine: once the detection stage has
\* run, RewardDetector.detect_reward_availability has been called and has
\* returned, and once the claiming stage has run,
\* RewardDetector.claim_available_rewards has been called with that detection
\* result and has returned.
C25_EnginesCalledOnce ==
    InCheckin =>
       /\ Started("reward_detection") =>
             dentry = "detect_reward_availability" /\ dpc = "done"
       /\ Started("reward_claiming") => cpc = "done" /\ detection_given

\* C26: however log_execution_result and get_execution_history calls on one
\* StateManager interleave, at most one of them is inside its file critical
\* section, and it holds the lock; no reader is at the file while a line is
\* partly written, and no record it returns is partial; and a step of a writer
\* leaves every earlier line as it was, a successful append having added
\* exactly one whole line at the end.
InCriticalSection(t) == task_pc[t] \in {"write", "flush", "read"}

MutualExclusion ==
    \A t, u \in Tasks :
        InCriticalSection(t) =>
            /\ lock_owner = t
            /\ InCriticalSection(u) => u = t

NoPartialRecordSeen ==
    \A t \in Tasks :
        /\ task_pc[t] = "read" => \A i \in DOMAIN history_file : history_file[i].whole
        /\ task_result[t].kind = "history" =>
              \A i \in DOMAIN task_result[t].value : task_result[t].value[i].whole

AppendStep ==
    /\ Len(history_file') \in {Len(history_file), Len(history_file) + 1}
    /\ \A i \in DOMAIN history_file :
          \/ history_file'[i] = history_file[i]
          \/ /\ i = Len(history_file)
             /\ ~history_file[i].whole
             /\ history_file'[i] = [history_file[i] EXCEPT !.whole = TRUE]
    /\ \A t \in Tasks :
          (task_result'[t].kind = "logged" /\ task_result[t].kind # "logged") =>
             /\ Len(history_file') = Len(history_file)
             /\ task_result'[t].value = Len(history_file')
             /\ history_file'[Len(history_file')].whole
             /\ \A i \in DOMAIN history_file' : history_file'[i].run = i

C26_SerializedFileAccess ==
    [](MutualExclusion /\ NoPartialRecordSeen) /\ [][AppendStep]_vars

\* a writer is inside with its line half written while another writer and
\* nobody else waits for the lock
C26_Witness ==
    /\ task_pc[1] = "flush"
    /\ task_pc[2] = "acquire"
    /\ task_call[2].name = "log_execution_result"
    /\ Len(history_file) = 1
    /\ ~history_file[1].whole

\* C27: a get_execution_history call answers with the records of the file,
\* most recent first, all of them without a limit and exactly the
\* min(k, total) most recent ones with a limit k, for every k >= 0; and
\* get_last_execution_result answers with a record of the greatest timestamp,
\* or with none when the file holds no record.
IsMostRecentFirst(answer, lines, wanted) ==
    /\ Len(answer) = wanted
    /\ \A i \in DOMAIN answer : \E j \in DOMAIN lines : answer[i] = lines[j]
    /\ \A i, j \in DOMAIN answer : i < j =>
          /\ answer[i].timestamp >= answer[j].timestamp
          /\ answer[i].run # answer[j].run
    /\ \A j \in DOMAIN lines :
          (\A i \in DOMAIN answer : answer[i] # lines[j]) =>
             \A i \in DOMAIN answer : answer[i].timestamp >= lines[j].timestamp

AnswersAsSpecified(t) ==
    LET total == Len(history_file)
        k == task_call[t].limit
        wanted == IF k = <<>> THEN total
                  ELSE IF k[1] < total THEN k[1] ELSE total
    IN  /\ task_result'[t].kind = "history" =>
              IsMostRecentFirst(task_result'[t].value, history_file, wanted)
        /\ task_result'[t].kind = "record" =>
              IF total = 0 THEN task_result'[t].value = <<>>
              ELSE /\ Len(task_result'[t].value) = 1
                   /\ \A j \in DOMAIN history_file :
                         task_result'[t].value[1].timestamp >= history_file[j].timestamp

C27_HistoryMostRecentFirst ==
    [][\A t \in Tasks :
          (task_pc[t] = "read" /\ task_pc'[t] = "done") => AnswersAsSpecified(t)]_vars

\* C29: a cleanup_old_logs call that starts while the lock is free and no
\* other call is in progress eventually completes with the lock released.
CleanupStartsAlone(t) ==
    /\ task_call[t].name = "cleanup_old_logs"
    /\ task_pc[t] = "acquire"
    /\ lock_owner = 0
    /\ \A u \in Tasks \ {t} : task_pc[u] = "idle"

C29_CleanupCompletes ==
    \A t \in Tasks : CleanupStartsAlone(t) ~> (task_pc[t] = "done" /\ lock_owner # t)

\* C28: every initialize() call tries at most two backends; it tries a second
\* one exactly when the first was Playwright and failed with ImportError, the
\* second is Selenium and the framework field stays "selenium" from then on;
\* a call that ends in a failure raises RuntimeError, except that a missing
\* Selenium dependency (ImportError with the framework "selenium", configured
\* or reached by the fallback) is raised as the ImportError it is.
AttemptsOf(c) == SelectSeq(backend_log, LAMBDA e : e.call = c)

CallEnded(c) == c < init_calls \/ bpc \in {"returned", "raised"}

FallbackOnlyOnPlaywrightImportError ==
    /\ \A c \in 1..init_calls :
          LET a == AttemptsOf(c)
          IN  /\ Len(a) <= 2
              /\ CallEnded(c) => Len(a) >= 1
              /\ Len(a) = 2 =>
                    /\ a[1].framework = "playwright"
                    /\ a[1].outcome = "ImportError"
                    /\ a[2].framework = "selenium"
              /\ (Len(a) = 1 /\ CallEnded(c)) =>
                    ~(a[1].framework = "playwright" /\ a[1].outcome = "ImportError")
    /\ \A i, j \in DOMAIN backend_log :
          (i < j /\ backend_log[i].framework = "selenium") =>
             backend_log[j].framework = "selenium"
    /\ (\E i \in DOMAIN backend_log :
           backend_log[i].framework = "playwright" /\ backend_log[i].outcome = "ImportError")
          => framework = "selenium"

LastAttempt == backend_log[Len(backend_log)]

C28_FallbackOnceSeleniumImportErrorRaised ==
    /\ FallbackOnlyOnPlaywrightImportError
    /\ bpc = "returned" =>
          /\ LastAttempt.outcome = "ok"
          /\ init_result = framework
    /\ bpc = "raised" =>
          IF LastAttempt.outcome = "ImportError"
          THEN LastAttempt.framework = "selenium" /\ init_result = "ImportError"
          ELSE /\ LastAttempt.outcome \in {"Exception", "ValueError"}
               /\ init_result = "RuntimeError"

\* the fallback has been taken and Selenium is missing as well: the call ends
\* with ImportError
C28_Witness ==
    /\ bpc = "raised"
    /\ init_result = "ImportError"
    /\ Len(AttemptsOf(init_calls)) = 2
    /\ AttemptsOf(init_calls)[1].framework = "playwright"

\* C28 as stated: the same fallback discipline, and every failure other than
\* the ImportError of Playwright ends the call with RuntimeError.
C28_OtherFailuresRaiseRuntimeError ==
    /\ FallbackOnlyOnPlaywrightImportError
    /\ bpc = "raised" => init_result = "RuntimeError"

\* C30: execute_checkin reports success = true and workflow_completed = true
\* only if the claiming stage was not entered or the claim it attempted
\* reported success.
C30_SuccessImpliesClaimSucceeded ==
    (/\ InCheckin /\ pc = "returned"
     /\ workflow_result.success = TRUE
     /\ workflow_result.workflow_completed = TRUE
     /\ Started("reward_claiming"))
        => workflow_result.claiming_results.success = TRUE

\* C31: a validated claim is reachable: when UI success feedback, both
\* state-change deltas and success icons are all detected at their built-in
\* confidences, validate_claim_success returns claim_validated = true.
FullEvidence(vr) ==
    /\ vr.ui_feedback_detected # <<>>
    /\ Len(vr.state_changes_detected) = 2
    /\ vr.success_indicators # <<>>

C31_FullEvidenceValidates ==
    (vpc = "done" /\ FullEvidence(validation_result)) =>
        /\ FracGt(validation_result.validation_confidence, <<ValidationThreshold, 1>>)
        /\ validation_result.claim_validated

\* C32: the execution record execute_checkin appends to the history reflects
\* the run's final outcome: for a run that returns, its success and
\* workflow_completed fields equal those of the returned WorkflowResult, and
\* for a run that raises its success is false.
LastRecord == history[Len(history)]

C32_RecordReflectsOutcome ==
    (InCheckin /\ Left /\ history # <<>>) =>
        /\ pc = "returned" =>
              /\ LastRecord.success = workflow_result.success
              /\ LastRecord.workflow_completed = workflow_result.workflow_completed
        /\ pc = "raised" => LastRecord.success = FALSE

\* C33: over the lifetime of an orchestrator used as the entry point uses it
\* (context entered, initialize, execute_checkin, context exit) the browser's
\* close is invoked exactly once: after a successful run, after a failed run
\* and after a failed initialize.
LifetimeOver == pc = "exited" /\ entry # "execute_workflow"

C33_BrowserClosedOnce == LifetimeOver => close_calls = 1

\* C34: within one execute_checkin run the stages run in the fixed order
\* navigation, modal dismissal, authentication, reward detection, then reward
\* claiming optionally followed by claim validation, or the dry-run marker, or
\* the no-rewards marker, then logging: no stage runs twice, none is skipped
\* before a later one runs, and step_completed never goes back to the marker
\* of an earlier stage.
StageOrder ==
    <<"navigation", "modal_handling", "authentication", "reward_detection",
      "reward_claiming", "claim_validation", "logging">>

StageRank(s) == CHOOSE i \in DOMAIN StageOrder : StageOrder[i] = s

MarkerRank(m) ==
    IF m = NoneVal THEN 0
    ELSE IF m \in {"dry_run_complete", "no_rewards_to_claim"} THEN StageRank("reward_claiming")
    ELSE StageRank(m)

StagesInOrder ==
    /\ \A i \in DOMAIN stages : stages[i] \in Range(StageOrder)
    /\ \A i, j \in DOMAIN stages : i < j => StageRank(stages[i]) < StageRank(stages[j])
    /\ \A i \in DOMAIN stages : i <= 4 => stages[i] = StageOrder[i]
    /\ Started("claim_validation") => Started("reward_claiming")
    /\ Started("logging") => Len(stages) >= 5

OneBranchBeforeLogging ==
    (pc = "log" \/ Started("logging")) =>
        LET m == workflow_result.step_completed
        IN  /\ m \in {"reward_claiming", "claim_validation", "dry_run_complete",
                      "no_rewards_to_claim"}
            /\ m = "claim_validation" <=> Started("claim_validation")
            /\ m \in {"reward_claiming", "claim_validation"} <=> Started("reward_claiming")

MarkerMovesForward ==
    (InCheckin /\ entry' = entry) =>
        MarkerRank(workflow_result'.step_completed) >= MarkerRank(workflow_result.step_completed)

C34_StagesInFixedOrder ==
    /\ [](InCheckin => StagesInOrder /\ OneBranchBeforeLogging)
    /\ [][MarkerMovesForward]_vars

\* a run went through every stage, validation included, and returned
C34_Witness ==
    /\ InCheckin /\ pc = "returned"
    /\ stages = StageOrder
    /\ workflow_result.step_completed = "claim_validation"

\* C35: analyze_interface makes primary the strategy with the greatest
\* (confidence, element_count) among those that found something, equal pairs
\* keeping registry order; the other such strategies are the fallbacks, in
\* descending rank; detection_confidence is the primary's confidence; and a
\* strategy that found nothing is neither primary nor fallback.
FoundSomething(i) ==
    ~strategy_results[i].raised /\ strategy_results[i].found_elements > 0

RegistryIndex(name) == CHOOSE i \in DOMAIN StrategyNames : StrategyNames[i] = name

RanksBefore(i, j) ==
    LET a == strategy_results[i]
        b == strategy_results[j]
    IN  \/ a.confidence > b.confidence
        \/ a.confidence = b.confidence /\ a.found_elements > b.found_elements
        \/ a.confidence = b.confidence /\ a.found_elements = b.found_elements /\ i < j

RankedNames ==
    IF interface_analysis.primary_strategy = NoneVal THEN <<>>
    ELSE <<interface_analysis.primary_strategy>> \o interface_analysis.fallback_strategies

C35_PrimaryIsBestRanked ==
    (AnalysisReturned /\ Len(strategy_results) = Len(StrategyNames)) =>
        /\ {RegistryIndex(RankedNames[k]) : k \in DOMAIN RankedNames}
              = {i \in DOMAIN strategy_results : FoundSomething(i)}
        /\ \A k, l \in DOMAIN RankedNames :
              k < l => RanksBefore(RegistryIndex(RankedNames[k]), RegistryIndex(RankedNames[l]))
        /\ RankedNames # <<>> =>
              interface_analysis.detection_confidence
                 = strategy_results[RegistryIndex(RankedNames[1])].confidence

\* two strategies failed in their own handlers after finding an element: equal
\* pairs, ranked in registry order behind the one that ended normally, while
\* the class-based strategy found nothing and is left out
C35_Witness ==
    /\ AnalysisReturned
    /\ Len(strategy_results) = Len(StrategyNames)
    /\ ~FoundSomething(1)
    /\ interface_analysis.primary_strategy = StrategyNames[4]
    /\ interface_analysis.fallback_strategies = <<StrategyNames[2], StrategyNames[3]>>
    /\ strategy_results[2].confidence = strategy_results[3].confidence

\* C36: whenever interface analysis yields detection_confidence < 0.3,
\* detect_reward_availability returns at once with that confidence, empty
\* claimable, claimed and unavailable lists and total_rewards_found = 0, and
\* invokes no reward-state classifier of its own: the only classifier invoked
\* during the call is the one interface analysis itself runs for its primary
\* strategy, when it has one.  Classification and fallback merging by
\* detect_reward_availability happen only when the confidence is >= 0.3.
BelowGate == interface_analysis.detection_confidence < LowConfidenceGate

AnalysisClassifierCalls ==
    IF interface_analysis.primary_strategy = NoneVal THEN <<>>
    ELSE <<interface_analysis.primary_strategy>>

ReturnedEmptyAtGate ==
    /\ reward_availability.detection_confidence = interface_analysis.detection_confidence
    /\ reward_availability.claimable_rewards = <<>>
    /\ reward_availability.claimed_rewards = <<>>
    /\ reward_availability.unavailable_rewards = <<>>
    /\ reward_availability.total_rewards_found = 0

C36_GateStopsOwnClassification ==
    /\ (DetectionReturned /\ BelowGate) =>
          /\ ReturnedEmptyAtGate
          /\ classifier_calls = AnalysisClassifierCalls
    /\ (dpc = "gate" /\ BelowGate) => ENABLED ReturnLowConfidence
    /\ (DetectionReturned /\ Len(classifier_calls) > Len(AnalysisClassifierCalls)) => ~BelowGate

\* the only strategies that found something ended in their own handlers with
\* confidence 0.0: analysis ran the primary's classifier, the gate returned
C36_Witness ==
    /\ DetectionReturned
    /\ BelowGate
    /\ interface_analysis.primary_strategy # NoneVal
    /\ classifier_calls = <<interface_analysis.primary_strategy>>
    /\ ReturnedEmptyAtGate

\* C36 as stated: below the gate no strategy's reward-state classifier is
\* invoked during the call at all.
C36_NoClassifierBelowGate ==
    (DetectionReturned /\ BelowGate) =>
        /\ ReturnedEmptyAtGate
        /\ classifier_calls = <<>>

\* C37: past the gate the confidence detect_reward_availability returns is
\* min(1.0, base + min(0.3, total_rewards_found * 0.1)) (in hundredths), where
\* base is the confidence interface analysis gave the primary strategy and
\* total_rewards_found counts the claimable, claimed and unavailable entries
\* left after merging; the bonus is at most 0.3 and the result at most 1.0.
RewardBonus == Min(30, reward_availability.total_rewards_found * 10)

CountsMergedEntries ==
    reward_availability.total_rewards_found =
        Len(reward_availability.claimable_rewards)
        + Len(reward_availability.claimed_rewards)
        + Len(reward_availability.unavailable_rewards)

ClickedSuccessfully(i) == click_log[i].reward_clicks > click_log[i].failed_clicks

ClickBudgetKept ==
    \A i \in DOMAIN click_log :
        /\ click_log[i].reward_clicks <= max_retries
        /\ click_log[i].clicks_after_success = 0
        /\ click_log[i].reward_clicks - click_log[i].failed_clicks <= 1
        /\ click_log[i].dialog_started => ClickedSuccessfully(i)

RetryLoopBounded ==
    /\ cpc = "click" =>
          /\ attempt \in 0..(max_retries - 1)
          /\ click_log[ri].reward_clicks = attempt
          /\ ~claim_result.clicked
    /\ cpc = "confirm" => claim_result.clicked /\ ClickedSuccessfully(ri)

RetryLoopAdvances ==
    cpc = "click" => \/ cpc' \in {"confirm", "settle", "record"}
                     \/ cpc' = "click" /\ attempt' = attempt + 1

C38_AtMostThreeClicks ==
    /\ [](ClickBudgetKept /\ RetryLoopBounded)
    /\ [][RetryLoopAdvances]_vars

\* two clicks failed, the third succeeded, and the dialog handling ran
C38_Witness ==
    /\ cpc = "record"
    /\ click_log[ri].reward_clicks = max_retries
    /\ click_log[ri].failed_clicks = max_retries - 1
    /\ claim_result.clicked
    /\ click_log[ri].dialog_started

\* C39: _handle_confirmation_dialog probes each confirmation selector at
\* most once, in list order, and terminates: every iteration ends the loop or
\* moves to the next of the eight selectors. With no selector matching it
\* returns confirmed = true and dialog_found = false; with a match it clicks
\* the matching selector and returns dialog_found = true; after a
\* confirmation click succeeded no further selector is probed.
LastSelector == Cardinality(confirmation_selectors)

ProbedUpTo(k) ==
    \A s \in confirmation_selectors : probe_log[s] = (IF s <= k THEN 1 ELSE 0)

ConfirmationReturned ==
    /\ cpc \in {"settle", "record"}
    /\ ri \in DOMAIN click_log
    /\ click_log[ri].dialog_started

ConfirmationOutcome ==
    /\ cpc = "confirm" =>
          /\ csel \in confirmation_selectors
          /\ ProbedUpTo(csel - 1)
          /\ ~confirmation_result.confirmed
    /\ ConfirmationReturned =>
          /\ ProbedUpTo(csel)
          /\ confirmation_result.dialog_found <=> click_log[ri].confirm_clicks >= 1
          /\ ~confirmation_result.dialog_found =>
                confirmation_result.confirmed /\ csel = LastSelector
          /\ csel < LastSelector =>
                confirmation_result.confirmed /\ confirmation_result.dialog_found

SelectorLoopAdvances ==
    cpc = "confirm" => \/ cpc' = "settle"
                       \/ cpc' = "confirm" /\ csel' = csel + 1

C39_ConfirmationProbesOnce ==
    /\ []ConfirmationOutcome
    /\ [][SelectorLoopAdvances]_vars

\* the first selector matched but its click failed, the second was clicked
\* with success, and the other six were never probed
C39_Witness ==
    /\ ConfirmationReturned
    /\ csel = 2
    /\ click_log[ri].confirm_clicks = 2
    /\ confirmation_result.confirmed
    /\ confirmation_result.dialog_found
    /\ probe_log[3] = 0

\* no selector matched: confirmation is assumed
C39_WitnessNoDialog ==
    /\ ConfirmationReturned
    /\ ~confirmation_result.dialog_found
    /\ confirmation_result.confirmed
    /\ ProbedUpTo(LastSelector)

\* C40: for an ElementNotFound error recovery tries detect_elements of every
\* registered strategy other than the one acting as primary: the primary is
\* not tried, recovery_success holds exactly when one of the others reports
\* found elements, then with retry_recommended = true, and otherwise
\* retry_recommended = false and fallback_available = false; a strategy that
\* raises does not end the search.
ElementNotFoundHandled == epc = "done" /\ handler = "ElementNotFound"

DetectOutcome(s) == IF s \in DOMAIN env.fallback THEN env.fallback[s] ELSE env.first

NonPrimaryStrategies == RegisteredStrategies \ {env.primary}

NonPrimaryFound == \E s \in NonPrimaryStrategies : DetectOutcome(s) = "found"

C40_RecoveryTriesAllButPrimary ==
    ElementNotFoundHandled =>
        /\ env.primary \notin FallbackSelectorsTried(env)
        /\ handling_result.recovery_success = NonPrimaryFound
        /\ NonPrimaryFound => handling_result.retry_recommended = TRUE
        /\ ~NonPrimaryFound =>
              /\ handling_result.retry_recommended = FALSE
              /\ handling_result.fallback_available = FALSE

\* what the handler does: it searches strategies[1:], whichever strategy is
\* the primary, past the ones that raise, up to the first that finds elements
C40_RecoverySearchesRegistryTail ==
    ElementNotFoundHandled =>
        LET tail_found == \E s \in FallbackStrategies : env.fallback[s] = "found"
        IN  /\ 1 \notin FallbackSelectorsTried(env)
            /\ handling_result.recovery_success = tail_found
            /\ handling_result.retry_recommended = tail_found
            /\ ~tail_found => handling_result.fallback_available = FALSE
            /\ \A s \in FallbackStrategies :
                  (\A r \in FallbackStrategies : r < s => env.fallback[r] = "raises")
                      => s \in FallbackSelectorsTried(env)

\* the second registered strategy is the primary and the only one that finds
\* elements: recovery reports success although no other strategy found any
C40_PrimaryTriedAsFallback ==
    /\ ElementNotFoundHandled
    /\ env.primary = 2
    /\ env.fallback[2] = "found"
    /\ ~NonPrimaryFound
    /\ handling_result.recovery_success = TRUE
    /\ handling_result.retry_recommended = TRUE

====
